---- MODULE Spec2Model ----
(***************************************************************************)
(* A model of the lamb template engine (govel-framework/lamb): the mode-   *)
(* switching lexer, the Pratt parser, the tree-walking evaluator with its  *)
(* environment and the composition primitives (extends / section / define  *)
(* / include), and the loader with its on-disk render cache.               *)
(*                                                                         *)
(* Representation.  Source text and token literals are sequences of        *)
(* one-character strings (bytes); the byte 0 is written NUL.  Run-time     *)
(* string values (and rendered output) are TLA+ strings, obtained from     *)
(* byte sequences by Join.  Go's nil is Nil.                               *)
(***************************************************************************)
EXTENDS Integers, Sequences, FiniteSets, TLC

RECURSIVE Join(_)
RECURSIVE skipWhitespace(_)
RECURSIVE readIdentifier(_)
RECURSIVE readNumber(_)
RECURSIVE readStringLoop(_, _)
RECURSIVE readCommentLoop(_)
RECURSIVE NextToken(_)
RECURSIVE Stream(_, _)
RECURSIVE ToStrNat(_)
RECURSIVE digitsValue(_, _, _)
RECURSIVE parseExpression(_, _)
RECURSIVE exprLoop(_, _, _)
RECURSIVE parseStatement(_)
RECURSIVE parseBlockLoop(_, _, _)
RECURSIVE parseExpressionListLoop(_, _)
RECURSIVE parseMapLoop(_, _)
RECURSIVE ParseProgramLoop(_, _)
RECURSIVE Format(_)
RECURSIVE FormatSeq(_)
RECURSIVE FormatPairs(_)
RECURSIVE rangeLoop(_, _)
RECURSIVE Eval(_, _, _)
RECURSIVE evalStatementsLoop(_, _, _, _)
RECURSIVE evalExpressionsLoop(_, _, _, _)
RECURSIVE evalMapLiteralLoop(_, _, _, _)
RECURSIVE evalForLoop(_, _, _, _, _, _)
RECURSIVE includeVarsLoop(_, _, _, _)
RECURSIVE evalProgramLoop(_, _, _, _)
RECURSIVE LoadFile(_, _, _)
RECURSIVE RenderSource(_, _, _)
RECURSIVE String(_, _)
RECURSIVE StringAll(_, _)
RECURSIVE JoinWith(_, _)
RECURSIVE ReplaceAll(_, _, _)

(***************************************************************************)
(* Bytes and strings                                                       *)
(***************************************************************************)
NUL == "NUL"

Nil == [t |-> "nil"]

\* string(bytes): the Go string made of a byte sequence
Join(s) == IF s = <<>> THEN "" ELSE Head(s) \o Join(Tail(s))

LowerCase == {"a", "b", "c", "d", "e", "f", "g", "h", "i", "j", "k", "l", "m",
              "n", "o", "p", "q", "r", "s", "t", "u", "v", "w", "x", "y", "z"}
UpperCase == {"A", "B", "C", "D", "E", "F", "G", "H", "I", "J", "K", "L", "M",
              "N", "O", "P", "Q", "R", "S", "T", "U", "V", "W", "X", "Y", "Z"}

isLetter(ch) == ch \in LowerCase \cup UpperCase \cup {"_"}

isDigit(ch) == ch \in {"0", "1", "2", "3", "4", "5", "6", "7", "8", "9"}

\* input[from:to] of Go (0-based, to exclusive)
Slice(input, from, to) == SubSeq(input, from + 1, to)

(***************************************************************************)
(* token                                                                   *)
(***************************************************************************)
keywords == {"var", "true", "false", "if", "else", "endif", "for", "endfor",
             "in", "extends", "section", "endsection", "define", "end",
             "include", "and"}

LookUpIdent(ident) == IF Join(ident) \in keywords THEN Join(ident) ELSE "IDENT"

Token(type, literal, line, col) ==
    [Type |-> type, Literal |-> literal, Line |-> line, Col |-> col]

\* the zero value of token.Token
ZeroToken == Token("", <<>>, 0, 0)

\* The local variables of a Go function.  Bind(v, LAMBDA x : e) is
\* LET x == v IN e, and BindN does the same with N definitions in a row,
\* each LAMBDA naming the ones before it.  (TLC's coverage walks the body
\* of a LET definition at each use of it, and an operator argument once.)
Bind(v, In(_)) == In(v)

Bind2(v1, F2(_), In(_, _)) ==
    LET x1 == v1
        x2 == F2(x1)
    IN  In(x1, x2)

Bind3(v1, F2(_), F3(_, _), In(_, _, _)) ==
    LET x1 == v1
        x2 == F2(x1)
        x3 == F3(x1, x2)
    IN  In(x1, x2, x3)

Bind4(v1, F2(_), F3(_, _), F4(_, _, _), In(_, _, _, _)) ==
    LET x1 == v1
        x2 == F2(x1)
        x3 == F3(x1, x2)
        x4 == F4(x1, x2, x3)
    IN  In(x1, x2, x3, x4)

Bind5(v1, F2(_), F3(_, _), F4(_, _, _), F5(_, _, _, _), In(_, _, _, _, _)) ==
    LET x1 == v1
        x2 == F2(x1)
        x3 == F3(x1, x2)
        x4 == F4(x1, x2, x3)
        x5 == F5(x1, x2, x3, x4)
    IN  In(x1, x2, x3, x4, x5)

Bind6(v1, F2(_), F3(_, _), F4(_, _, _), F5(_, _, _, _), F6(_, _, _, _, _), In(_, _, _, _, _, _)) ==
    LET x1 == v1
        x2 == F2(x1)
        x3 == F3(x1, x2)
        x4 == F4(x1, x2, x3)
        x5 == F5(x1, x2, x3, x4)
        x6 == F6(x1, x2, x3, x4, x5)
    IN  In(x1, x2, x3, x4, x5, x6)

Bind8(v1, F2(_), F3(_, _), F4(_, _, _), F5(_, _, _, _), F6(_, _, _, _, _), F7(_, _, _, _, _, _), F8(_, _, _, _, _, _, _), In(_, _, _, _, _, _, _, _)) ==
    LET x1 == v1
        x2 == F2(x1)
        x3 == F3(x1, x2)
        x4 == F4(x1, x2, x3)
        x5 == F5(x1, x2, x3, x4)
        x6 == F6(x1, x2, x3, x4, x5)
        x7 == F7(x1, x2, x3, x4, x5, x6)
        x8 == F8(x1, x2, x3, x4, x5, x6, x7)
    IN  In(x1, x2, x3, x4, x5, x6, x7, x8)

(***************************************************************************)
(* lexer                                                                   *)
(***************************************************************************)
readChar(l) ==
    IF l.readPosition >= Len(l.input)
    THEN [l EXCEPT !.ch = NUL,
                   !.Column = IF l.Column = 0 THEN 1 ELSE l.Column]
    ELSE Bind(l.input[l.readPosition + 1],
         LAMBDA c : [l EXCEPT !.ch = c,
                       !.position = l.readPosition,
                       !.readPosition = l.readPosition + 1,
                       !.Line = IF c = "\n" THEN l.Line + 1 ELSE l.Line,
                       !.Column = IF c = "\n" THEN 0
                                  ELSE IF c = "\t" THEN l.Column + 4
                                  ELSE l.Column + 1])

NewLexer(input) ==
    readChar([input |-> input, position |-> 0, readPosition |-> 0,
              Line |-> 1, Column |-> 0, ch |-> NUL, inCode |-> FALSE])

peekChar(l) ==
    IF l.readPosition >= Len(l.input) THEN NUL ELSE l.input[l.readPosition + 1]

skipWhitespace(l) ==
    IF l.ch \in {" ", "\t", "\n", "\r"} THEN skipWhitespace(readChar(l)) ELSE l

\* string(ch) of a byte ch: the UTF-8 form of the code point ch, which is
\* the byte itself below 0x80 and two bytes from 0x80 on
Utf8 == "0xE9" :> <<"0xC3", "0xA9">>

RuneString(ch) == IF ch \in DOMAIN Utf8 THEN Utf8[ch] ELSE <<ch>>

newToken(l, tokenType, ch) ==
    Token(tokenType, RuneString(ch), l.Line, l.Column)

\* the lexer after the loop of readIdentifier
readIdentifier(l) == IF isLetter(l.ch) THEN readIdentifier(readChar(l)) ELSE l

\* the lexer after the loop of readNumber
readNumber(l) == IF isDigit(l.ch) THEN readNumber(readChar(l)) ELSE l

\* the loop of readString: read until the quote or the end of the input
readStringLoop(l, char) ==
    Bind(readChar(l),
    LAMBDA l1 : IF l1.ch = char \/ l1.ch = NUL THEN l1 ELSE readStringLoop(l1, char))

readString(l, char) ==
    Bind2(l.position + 1,
        LAMBDA position : readStringLoop(l, char),
    LAMBDA position, l1 : [tok |-> Token("STRING", Slice(l.input, position - 1, l1.position + 1),
                       l.Line, l.Column),
         l |-> l1])

readCommentLoop(l) ==
    IF l.ch = "#" \/ l.ch = NUL THEN readChar(l) ELSE readCommentLoop(readChar(l))

readComment(l) == readCommentLoop(readChar(l))

\* the single-character tokens of NextToken's switch
SingleCharTokens == {"+", "-", "*", "/", "<", ">", ";", "(", ")", ",", "{",
                     "}", "[", "]", ":", "."}

\* NextToken once the HTML branch is behind: whitespace, ?}, the switch
NextCodeToken(l0) ==
    Bind(skipWhitespace(l0),
    LAMBDA l : IF l.ch = "?" /\ peekChar(l) = "}"
        THEN Bind(readChar(readChar([l EXCEPT !.inCode = FALSE])),
             LAMBDA l2 : [tok |-> Token("EOC", <<>>, l2.Line, l2.Column), l |-> l2])
        ELSE CASE l.ch = "=" ->
                    IF peekChar(l) = "="
                    THEN Bind(readChar(l),
                         LAMBDA l1 : [tok |-> Token("==", <<l.ch, l1.ch>>, 0, 0),
                              l |-> readChar(l1)])
                    ELSE [tok |-> newToken(l, "=", l.ch), l |-> readChar(l)]
               [] l.ch = "!" ->
                    IF peekChar(l) = "="
                    THEN Bind(readChar(l),
                         LAMBDA l1 : [tok |-> Token("!=", <<l.ch, l1.ch>>, 0, 0),
                              l |-> readChar(l1)])
                    ELSE [tok |-> newToken(l, "!", l.ch), l |-> readChar(l)]
               [] l.ch \in SingleCharTokens ->
                    [tok |-> newToken(l, l.ch, l.ch), l |-> readChar(l)]
               [] l.ch = "\"" \/ l.ch = "'" ->
                    Bind(readString(l, l.ch),
                    LAMBDA r : [tok |-> r.tok, l |-> readChar(r.l)])
               [] l.ch = "#" -> NextToken(readComment(l))
               [] l.ch = NUL ->
                    [tok |-> Token("EOF", <<>>, l.Line, l.Column),
                     l |-> readChar(l)]
               [] OTHER ->
                    IF isLetter(l.ch)
                    THEN Bind2(readIdentifier(l),
                             LAMBDA l1 : Slice(l.input, l.position, l1.position),
                         LAMBDA l1, lit : [tok |-> Token(LookUpIdent(lit), lit, l.Line, l.Column),
                              l |-> l1])
                    ELSE IF isDigit(l.ch)
                    THEN Bind(readNumber(l),
                         LAMBDA l1 : [tok |-> Token("INT",
                                            Slice(l.input, l.position, l1.position),
                                            l.Line, l.Column),
                              l |-> l1])
                    ELSE [tok |-> newToken(l, "ILLEGAL", l.ch), l |-> readChar(l)])

NextToken(l) ==
    IF ~l.inCode /\ l.ch # NUL
    THEN IF l.ch = "{" /\ peekChar(l) = "?"
         THEN NextCodeToken(readChar(readChar([l EXCEPT !.inCode = TRUE])))
         ELSE [tok |-> Token("HTML", RuneString(l.ch), l.Line, l.Column),
               l |-> readChar(l)]
    ELSE NextCodeToken(l)


(***************************************************************************)
(* parser                                                                  *)
(***************************************************************************)
LOWEST == 1
EQUALS == 2
LESSGREATER == 3
SUM == 4
PRODUCT == 5
PREFIX == 6
CALL == 7
INDEX == 8
IN_PREC == 9
DOT == 10
AND == 11

precedences(type) ==
    CASE type \in {"==", "!="} -> EQUALS
      [] type \in {"<", ">"} -> LESSGREATER
      [] type \in {"+", "-"} -> SUM
      [] type \in {"/", "*"} -> PRODUCT
      [] type = "(" -> CALL
      [] type = "[" -> INDEX
      [] type = "." -> DOT
      [] type = "and" -> AND
      [] OTHER -> 0

DigitSeq == <<"0", "1", "2", "3", "4", "5", "6", "7", "8", "9">>

\* %d of a natural number
ToStrNat(n) == IF n < 10 THEN DigitSeq[n + 1]
               ELSE ToStrNat(n \div 10) \o DigitSeq[(n % 10) + 1]

\* %d / %v of an int
ToStr(n) == IF n < 0 THEN "-" \o ToStrNat(0 - n) ELSE ToStrNat(n)

DigitValue(ch) == CHOOSE i \in 0..9 : DigitSeq[i + 1] = ch

\* the value of a digit string in a base, -1 when a digit is not of the base
digitsValue(lit, base, acc) ==
    IF lit = <<>> THEN acc
    ELSE IF DigitValue(Head(lit)) >= base THEN -1
    ELSE digitsValue(Tail(lit), base, acc * base + DigitValue(Head(lit)))

\* strconv.ParseInt(lit, 0, 64) on a run of digits: -1 stands for err != nil.
\* With base 0 a leading 0 makes the literal octal.
ParseInt(lit) ==
    IF lit = <<>> THEN -1
    ELSE IF Len(lit) > 1 /\ Head(lit) = "0" THEN digitsValue(Tail(lit), 8, 0)
    ELSE digitsValue(lit, 10, 0)

\* the results of n calls of l.NextToken() in a row, n > 0, the second half
\* of the calls starting from the lexer the first half leaves
Stream(l, n) ==
    IF n = 1 THEN <<NextToken(l)>>
    ELSE Bind(Stream(l, n \div 2),
         LAMBDA first : first \o Stream(first[Len(first)].l, n - n \div 2))

\* the results of the calls of l.NextToken() to come.  The lexer reads its
\* input only, so they are the same whenever the parser asks for them.  A
\* call reads a byte or more until the input ends; the call after that one
\* returns EOF and the next leaves the lexer as it was, so every later call
\* returns what this one did.
Tokens(l) == Stream(l, Len(l.input) + 2)

nextToken(p) ==
    Bind(Head(p.next),
    LAMBDA r : [p EXCEPT !.curToken = p.peekToken, !.peekToken = r.tok, !.l = r.l,
                 !.next = IF Len(p.next) > 1 THEN Tail(p.next) ELSE p.next])

\* parser state: the lexer and its results to come (next), the errors, the
\* two tokens.  pick resolves the iteration order of Go maps (range over
\* limits); panic records a nil dereference (the parse does not return).
NewParser(l, pick) ==
    nextToken(nextToken([l |-> l, next |-> Tokens(l), errors |-> <<>>,
                         curToken |-> ZeroToken, peekToken |-> ZeroToken,
                         pick |-> pick, panic |-> FALSE]))

Errors(p) == p.errors

appendError(p, msg) == [p EXCEPT !.errors = Append(p.errors, msg)]

peekError(p, t) ==
    appendError(p, ToStr(p.l.Line) \o ":" \o ToStr(p.l.Column)
                   \o ": expected new token to be " \o t \o ", but got "
                   \o p.peekToken.Type \o " instead")

lastTokenError(p, t, got) ==
    appendError(p, ToStr(p.l.Line) \o ": " \o ToStr(p.l.Column)
                   \o ": expected past token to be " \o t \o ", but got "
                   \o got \o " instead")

noPrefixParseFnError(p, t) ==
    appendError(p, ToStr(t.Line) \o ":" \o ToStr(t.Col)
                   \o ": unexpected token \"" \o t.Type \o "\"")

curTokenIs(p, t) == p.curToken.Type = t

peekTokenIs(p, t) == p.peekToken.Type = t

expectPeek(p, t) ==
    IF peekTokenIs(p, t) THEN [ok |-> TRUE, p |-> nextToken(p)]
    ELSE [ok |-> FALSE, p |-> peekError(p, t)]

peekPrecedence(p) ==
    IF precedences(p.peekToken.Type) # 0 THEN precedences(p.peekToken.Type)
    ELSE LOWEST

curPrecedence(p) ==
    IF precedences(p.curToken.Type) # 0 THEN precedences(p.curToken.Type)
    ELSE LOWEST

NilNode(p) == [node |-> Nil, p |-> p]

parseIdentifier(p) ==
    [node |-> [kind |-> "Identifier", Token |-> p.curToken,
               Value |-> Join(p.curToken.Literal)],
     p |-> p]

parseIntegerLiteral(p) ==
    IF ParseInt(p.curToken.Literal) < 0
    THEN NilNode(appendError(p, ToStr(p.l.Line) \o ":" \o ToStr(p.l.Column)
                                \o ": could not parse \""
                                \o Join(p.curToken.Literal) \o "\" as integer"))
    ELSE [node |-> [kind |-> "IntegerLiteral", Token |-> p.curToken,
                    Value |-> ParseInt(p.curToken.Literal)],
          p |-> p]

parsePrefixExpression(p) ==
    Bind(parseExpression(nextToken(p), PREFIX),
    LAMBDA r : [node |-> [kind |-> "PrefixExpression", Token |-> p.curToken,
                   Operator |-> Join(p.curToken.Literal), Right |-> r.node],
         p |-> r.p])

parseInfixExpression(p, left) ==
    Bind(parseExpression(nextToken(p), curPrecedence(p)),
    LAMBDA r : [node |-> [kind |-> "InfixExpression", Token |-> p.curToken,
                   Left |-> left, Operator |-> Join(p.curToken.Literal),
                   Right |-> r.node],
         p |-> r.p])

parseAndExpression(p, left) ==
    Bind(parseExpression(nextToken(p), LOWEST),
    LAMBDA r : [node |-> [kind |-> "InfixExpression", Token |-> p.curToken,
                   Left |-> left, Operator |-> Join(p.curToken.Literal),
                   Right |-> r.node],
         p |-> r.p])

parseBoolean(p) ==
    [node |-> [kind |-> "Boolean", Token |-> p.curToken,
               Value |-> curTokenIs(p, "true")],
     p |-> p]

parseGroupedExpression(p) ==
    Bind2(parseExpression(nextToken(p), LOWEST),
        LAMBDA r : expectPeek(r.p, ")"),
    LAMBDA r, e : IF ~e.ok THEN NilNode(e.p) ELSE [node |-> r.node, p |-> e.p])

\* the loop of parseBlockStatement
parseBlockLoop(p, limits, stmts) ==
    IF curTokenIs(p, "EOF") \/ p.curToken.Type \in limits
    THEN [stmts |-> stmts, p |-> p]
    ELSE Bind(parseStatement(p),
         LAMBDA r : parseBlockLoop(nextToken(r.p), limits,
                            IF r.node # Nil THEN Append(stmts, r.node) ELSE stmts))

\* limits is the sequence of the keys of the Go map; the range over it
\* starts at any key
parseBlockStatement(p, limits) ==
    Bind3({limits[i] : i \in 1..Len(limits)},
        LAMBDA lim : parseBlockLoop(nextToken(p), lim, <<>>),
        LAMBDA lim, r : IF p.pick THEN limits[1] ELSE limits[Len(limits)],
    LAMBDA lim, r, first : [node |-> [kind |-> "BlockStatement", Token |-> p.curToken,
                   Statements |-> r.stmts],
         p |-> IF r.p.curToken.Type \notin lim THEN peekError(r.p, first)
               ELSE r.p])

parseIfExpression(p) ==
    Bind6(parseExpression(nextToken(p), LOWEST),
        LAMBDA c : expectPeek(c.p, "EOC"),
        LAMBDA c, e1 : parseBlockStatement(e1.p, <<"endif", "else">>),
        LAMBDA c, e1, cons : expectPeek(cons.p, "EOC"),
        LAMBDA c, e1, cons, e2 : parseBlockStatement(e2.p, <<"endif">>),
        LAMBDA c, e1, cons, e2, alt : [kind |-> "IfExpression", Token |-> p.curToken,
                 Condition |-> c.node, Consequence |-> cons.node,
                 Alternative |-> Nil],
    LAMBDA c, e1, cons, e2, alt, node : IF ~e1.ok THEN NilNode(e1.p)
        ELSE IF ~curTokenIs(cons.p, "else") THEN [node |-> node, p |-> cons.p]
        ELSE IF ~e2.ok THEN NilNode(e2.p)
        ELSE [node |-> [node EXCEPT !.Alternative = alt.node], p |-> alt.p])

parseStringLiteral(p) ==
    [node |-> [kind |-> "StringLiteral", Token |-> p.curToken,
               Value |-> Join(p.curToken.Literal), Closed |-> FALSE],
     p |-> p]

parseHtml(p) ==
    [node |-> [kind |-> "StringLiteral", Token |-> p.curToken,
               Value |-> Join(p.curToken.Literal), Closed |-> FALSE],
     p |-> p]

parseEndOfCode(p) ==
    [node |-> [kind |-> "StringLiteral", Token |-> p.curToken,
               Value |-> Join(p.curToken.Literal), Closed |-> FALSE],
     p |-> p]

\* the loop over the commas of parseExpressionList
parseExpressionListLoop(p, list) ==
    IF peekTokenIs(p, ",")
    THEN Bind(parseExpression(nextToken(nextToken(p)), LOWEST),
         LAMBDA r : parseExpressionListLoop(r.p, Append(list, r.node)))
    ELSE [list |-> list, p |-> p]

\* a nil slice and an empty one are both <<>>
parseExpressionList(p, end) ==
    IF peekTokenIs(p, end) THEN [list |-> <<>>, p |-> nextToken(p)]
    ELSE Bind3(parseExpression(nextToken(p), LOWEST),
             LAMBDA f : parseExpressionListLoop(f.p, <<f.node>>),
             LAMBDA f, r : expectPeek(r.p, end),
         LAMBDA f, r, e : IF ~e.ok THEN [list |-> <<>>, p |-> e.p]
             ELSE [list |-> r.list, p |-> e.p])

parseCallExpression(p, function) ==
    Bind(parseExpressionList(p, ")"),
    LAMBDA r : [node |-> [kind |-> "CallExpression", Token |-> p.curToken,
                   Function |-> function, Arguments |-> r.list],
         p |-> r.p])

parseArrayLiteral(p) ==
    Bind(parseExpressionList(p, "]"),
    LAMBDA r : [node |-> [kind |-> "ArrayLiteral", Token |-> p.curToken,
                   Elements |-> r.list],
         p |-> r.p])

parseIndexExpression(p, left) ==
    Bind2(parseExpression(nextToken(p), LOWEST),
        LAMBDA r : expectPeek(r.p, "]"),
    LAMBDA r, e : IF ~e.ok THEN NilNode(e.p)
        ELSE [node |-> [kind |-> "IndexExpression", Token |-> p.curToken,
                        Left |-> left, Index |-> r.node],
              p |-> e.p])

\* the loop of parseMapLiteral; Pairs is keyed by the key expression's
\* identity, so every parsed pair is an entry of its own (a nil key is one
\* key): the pairs are kept in source order, ok is FALSE on return nil
parseMapLoop(p, pairs) ==
    IF peekTokenIs(p, "}") THEN [ok |-> TRUE, pairs |-> pairs, p |-> p]
    ELSE Bind5(parseExpression(nextToken(p), LOWEST),
             LAMBDA k : expectPeek(k.p, ":"),
             LAMBDA k, e1 : parseExpression(nextToken(e1.p), LOWEST),
             LAMBDA k, e1, v : expectPeek(v.p, ","),
             LAMBDA k, e1, v, e2 : IF k.node = Nil
                       THEN SelectSeq(pairs, LAMBDA q : q.key # Nil)
                            \o <<[key |-> Nil, value |-> v.node]>>
                       ELSE Append(pairs, [key |-> k.node, value |-> v.node]),
         LAMBDA k, e1, v, e2, pairs1 : IF ~e1.ok THEN [ok |-> FALSE, pairs |-> pairs, p |-> e1.p]
             ELSE IF peekTokenIs(v.p, "}") THEN parseMapLoop(v.p, pairs1)
             ELSE IF ~e2.ok THEN [ok |-> FALSE, pairs |-> pairs1, p |-> e2.p]
             ELSE parseMapLoop(e2.p, pairs1))

parseMapLiteral(p) ==
    Bind2(parseMapLoop(p, <<>>),
        LAMBDA r : expectPeek(r.p, "}"),
    LAMBDA r, e : IF ~r.ok THEN NilNode(r.p)
        ELSE IF ~e.ok THEN NilNode(e.p)
        ELSE [node |-> [kind |-> "MapLiteral", Token |-> p.curToken,
                        Pairs |-> r.pairs],
              p |-> e.p])

parseForExpression(p) ==
    Bind8(expectPeek(p, "IDENT"),
        LAMBDA e1 : Join(e1.p.curToken.Literal),
        LAMBDA e1, first : peekTokenIs(e1.p, ","),
        LAMBDA e1, first, two : expectPeek(nextToken(e1.p), "IDENT"),
        LAMBDA e1, first, two, e2 : IF two THEN e2.p ELSE e1.p,
        LAMBDA e1, first, two, e2, p2 : expectPeek(p2, "in"),
        LAMBDA e1, first, two, e2, p2, e3 : parseExpression(nextToken(e3.p), LOWEST),
        LAMBDA e1, first, two, e2, p2, e3, in : parseBlockStatement(in.p, <<"endfor">>),
    LAMBDA e1, first, two, e2, p2, e3, in, b : IF ~e1.ok THEN NilNode(e1.p)
        ELSE IF two /\ ~e2.ok THEN NilNode(e2.p)
        ELSE IF ~e3.ok THEN NilNode(e3.p)
        ELSE [node |-> [kind |-> "ForExpression", Token |-> p.curToken,
                        Key |-> IF two THEN first ELSE "",
                        Value |-> IF two THEN Join(e2.p.curToken.Literal)
                                  ELSE first,
                        In |-> in.node, Block |-> b.node],
              p |-> b.p])

\* the header shared by extends, section and define: ( STRING ) EOC
parseNamedHeader(p) ==
    Bind4(expectPeek(p, "("),
        LAMBDA e1 : expectPeek(e1.p, "STRING"),
        LAMBDA e1, e2 : expectPeek(e2.p, ")"),
        LAMBDA e1, e2, e3 : expectPeek(e3.p, "EOC"),
    LAMBDA e1, e2, e3, e4 : IF ~e1.ok THEN [ok |-> FALSE, name |-> <<>>, p |-> e1.p]
        ELSE IF ~e2.ok THEN [ok |-> FALSE, name |-> <<>>, p |-> e2.p]
        ELSE IF ~e3.ok THEN [ok |-> FALSE, name |-> <<>>, p |-> e3.p]
        ELSE IF ~e4.ok THEN [ok |-> FALSE, name |-> <<>>, p |-> e4.p]
        ELSE [ok |-> TRUE, name |-> e2.p.curToken.Literal, p |-> e4.p])

parseExtendsExpression(p) ==
    Bind(parseNamedHeader(p),
    LAMBDA h : IF ~h.ok THEN NilNode(h.p)
        ELSE [node |-> [kind |-> "ExtendsStatement", Token |-> p.curToken,
                        From |-> h.name],
              p |-> h.p])

parseSectionExpression(p) ==
    Bind2(parseNamedHeader(p),
        LAMBDA h : parseBlockStatement(h.p, <<"endsection">>),
    LAMBDA h, b : IF ~h.ok THEN NilNode(h.p)
        ELSE [node |-> [kind |-> "SectionStatement", Token |-> p.curToken,
                        Block |-> b.node, Name |-> h.name],
              p |-> b.p])

parseDefineExpression(p) ==
    Bind2(parseNamedHeader(p),
        LAMBDA h : parseBlockStatement(h.p, <<"end">>),
    LAMBDA h, b : IF ~h.ok THEN NilNode(h.p)
        ELSE [node |-> [kind |-> "DefineStatement", Token |-> p.curToken,
                        Name |-> h.name, Content |-> b.node],
              p |-> b.p])

\* left.TokenLiteral() on a nil left is a nil dereference
parseDotExpression(p, left) ==
    Bind(expectPeek(p, "IDENT"),
    LAMBDA e : IF left = Nil THEN NilNode([p EXCEPT !.panic = TRUE])
        ELSE IF left.kind # "Identifier"
        THEN NilNode(lastTokenError(p, "IDENT", Join(left.Token.Literal)))
        ELSE IF ~e.ok THEN NilNode(e.p)
        ELSE [node |-> [kind |-> "DotExpression", Token |-> p.curToken,
                        Left |-> left,
                        Right |-> [kind |-> "Identifier",
                                   Token |-> e.p.curToken,
                                   Value |-> Join(e.p.curToken.Literal)]],
              p |-> e.p])

parseIncludeExpression(p) ==
    Bind5(expectPeek(p, "("),
        LAMBDA e1 : expectPeek(e1.p, "STRING"),
        LAMBDA e1, e2 : peekTokenIs(e2.p, ","),
        LAMBDA e1, e2, withVars : parseExpression(nextToken(nextToken(e2.p)), LOWEST),
        LAMBDA e1, e2, withVars, v : expectPeek(IF withVars THEN v.p ELSE e2.p, ")"),
    LAMBDA e1, e2, withVars, v, e3 : IF ~e1.ok THEN NilNode(e1.p)
        ELSE IF ~e2.ok THEN NilNode(e2.p)
        ELSE IF ~e3.ok THEN NilNode(e3.p)
        ELSE [node |-> [kind |-> "IncludeStatement", Token |-> p.curToken,
                        File |-> e2.p.curToken.Literal,
                        Vars |-> IF withVars THEN v.node ELSE Nil],
              p |-> e3.p])

PrefixTokens == {"IDENT", "INT", "!", "-", "true", "false", "(", "if",
                 "STRING", "[", "{", "for", "HTML", "EOC", "extends",
                 "section", "define", "include"}

\* p.prefixParseFns[type]()
prefixParse(p) ==
    Bind(p.curToken.Type,
    LAMBDA type : CASE type = "IDENT" -> parseIdentifier(p)
          [] type = "INT" -> parseIntegerLiteral(p)
          [] type \in {"!", "-"} -> parsePrefixExpression(p)
          [] type \in {"true", "false"} -> parseBoolean(p)
          [] type = "(" -> parseGroupedExpression(p)
          [] type = "if" -> parseIfExpression(p)
          [] type = "STRING" -> parseStringLiteral(p)
          [] type = "[" -> parseArrayLiteral(p)
          [] type = "{" -> parseMapLiteral(p)
          [] type = "for" -> parseForExpression(p)
          [] type = "HTML" -> parseHtml(p)
          [] type = "EOC" -> parseEndOfCode(p)
          [] type = "extends" -> parseExtendsExpression(p)
          [] type = "section" -> parseSectionExpression(p)
          [] type = "define" -> parseDefineExpression(p)
          [] type = "include" -> parseIncludeExpression(p))

InfixTokens == {"+", "-", "/", "*", "==", "!=", "<", ">", "(", "[", ".",
                "and"}

\* p.infixParseFns[type](left), p.curToken being the operator
infixParse(p, left) ==
    Bind(p.curToken.Type,
    LAMBDA type : CASE type \in {"+", "-", "/", "*", "==", "!=", "<", ">"} ->
                parseInfixExpression(p, left)
          [] type = "(" -> parseCallExpression(p, left)
          [] type = "[" -> parseIndexExpression(p, left)
          [] type = "." -> parseDotExpression(p, left)
          [] type = "and" -> parseAndExpression(p, left))

\* the loop of parseExpression
exprLoop(p, precedence, leftExp) ==
    IF ~peekTokenIs(p, ";") /\ precedence < peekPrecedence(p)
    THEN IF p.peekToken.Type \notin InfixTokens THEN [node |-> leftExp, p |-> p]
         ELSE Bind(infixParse(nextToken(p), leftExp),
              LAMBDA r : exprLoop(r.p, precedence, r.node))
    ELSE [node |-> leftExp, p |-> p]

parseExpression(p, precedence) ==
    IF p.curToken.Type \notin PrefixTokens
    THEN NilNode(noPrefixParseFnError(p, p.curToken))
    ELSE Bind(prefixParse(p),
         LAMBDA l : exprLoop(l.p, precedence, l.node))

\* a nil *VarStatement returned as a Statement is not a nil Statement: null
\* marks it
parseVarStatement(p) ==
    Bind4(expectPeek(p, "IDENT"),
        LAMBDA e1 : expectPeek(e1.p, "="),
        LAMBDA e1, e2 : parseExpression(nextToken(e2.p), LOWEST),
        LAMBDA e1, e2, v : [kind |-> "VarStatement", null |-> TRUE],
    LAMBDA e1, e2, v, null : IF ~e1.ok THEN [node |-> null, p |-> e1.p]
        ELSE IF ~e2.ok THEN [node |-> null, p |-> e2.p]
        ELSE [node |-> [kind |-> "VarStatement", null |-> FALSE,
                        Token |-> p.curToken,
                        Name |-> [kind |-> "Identifier", Token |-> e1.p.curToken,
                                  Value |-> Join(e1.p.curToken.Literal)],
                        Value |-> v.node],
              p |-> IF peekTokenIs(v.p, ";") THEN nextToken(v.p) ELSE v.p])

parseExpressionStatement(p) ==
    Bind(parseExpression(p, LOWEST),
    LAMBDA r : [node |-> [kind |-> "ExpressionStatement", Token |-> p.curToken,
                   Expression |-> r.node],
         p |-> IF peekTokenIs(r.p, ";") THEN nextToken(r.p) ELSE r.p])

parseStatement(p) ==
    IF p.curToken.Type = "var" THEN parseVarStatement(p)
    ELSE parseExpressionStatement(p)

\* the loop of ParseProgram
ParseProgramLoop(p, stmts) ==
    IF p.curToken.Type = "EOF" THEN [stmts |-> stmts, p |-> p]
    ELSE Bind(parseStatement(p),
         LAMBDA r : ParseProgramLoop(nextToken(r.p),
                              IF r.node # Nil THEN Append(stmts, r.node)
                              ELSE stmts))

ParseProgram(p) ==
    Bind(ParseProgramLoop(p, <<>>),
    LAMBDA r : [node |-> [kind |-> "Program", Statements |-> r.stmts], p |-> r.p])


(***************************************************************************)
(* values                                                                  *)
(*   int, int64, bool, string, slice ([]interface{} or []int), map         *)
(*   (map[interface{}]interface{}, a sequence of pairs with distinct       *)
(*   keys), builtin (a *object.Builtin; func is its field Fn; fmt prints   *)
(*   an address for both, written as the name here), error, nil.  A panic  *)
(*   of the Go runtime is the value Panic(..): it unwinds every caller.    *)
(***************************************************************************)
IntV(n) == [t |-> "int", v |-> n]
Int64V(n) == [t |-> "int64", v |-> n]
BoolV(b) == [t |-> "bool", v |-> b]
StrV(s) == [t |-> "string", v |-> s]
SliceV(elem, s) == [t |-> "slice", elem |-> elem, v |-> s]
MapV(pairs) == [t |-> "map", v |-> pairs]
BuiltinV(name) == [t |-> "builtin", v |-> name]
ErrV(msg) == [t |-> "error", v |-> msg]
Panic(msg) == [t |-> "panic", v |-> msg]

isError(obj) == obj.t = "error"

IsPanic(obj) == obj.t = "panic"

\* an error or a panic: the caller returns it as it is
Stops(obj) == isError(obj) \/ IsPanic(obj)

\* fmt's %T
TypeName(v) ==
    CASE v.t = "int" -> "int"
      [] v.t = "int64" -> "int64"
      [] v.t = "bool" -> "bool"
      [] v.t = "string" -> "string"
      [] v.t = "slice" -> IF v.elem = "int" THEN "[]int" ELSE "[]interface {}"
      [] v.t = "map" -> "map[interface {}]interface {}"
      [] v.t = "builtin" -> "*object.Builtin"
      [] v.t = "error" -> "*errors.errorString"
      [] v.t = "func" -> "object.BuiltinFunction"
      [] v.t = "nil" -> "<nil>"

\* reflect's Kind().String()
KindName(v) ==
    CASE v.t = "builtin" -> "ptr"
      [] v.t = "error" -> "ptr"
      [] v.t = "nil" -> "invalid"
      [] v.t = "slice" -> "slice"
      [] v.t = "map" -> "map"
      [] OTHER -> v.t

FormatSeq(s) ==
    IF s = <<>> THEN ""
    ELSE Format(Head(s)) \o (IF Len(s) > 1 THEN " " ELSE "") \o FormatSeq(Tail(s))

\* the pairs of a map, in the order they are held (fmt sorts the keys)
FormatPairs(s) ==
    IF s = <<>> THEN ""
    ELSE Format(Head(s).k) \o ":" \o Format(Head(s).v)
         \o (IF Len(s) > 1 THEN " " ELSE "") \o FormatPairs(Tail(s))

\* fmt.Sprintf("%v", v)
Format(v) ==
    CASE v.t \in {"int", "int64"} -> ToStr(v.v)
      [] v.t = "bool" -> IF v.v THEN "true" ELSE "false"
      [] v.t = "string" -> v.v
      [] v.t = "error" -> v.v
      [] v.t = "slice" -> "[" \o FormatSeq(v.v) \o "]"
      [] v.t = "map" -> "map[" \o FormatPairs(v.v) \o "]"
      [] v.t \in {"builtin", "func"} -> "&{" \o v.v \o "}"
      [] v.t = "nil" -> "<nil>"

newError(t, msg) == ErrV(ToStr(t.Line) \o ": " \o ToStr(t.Col) \o ": " \o msg)

(***************************************************************************)
(* object.Environment.  store and Sections are Go maps: a copy of the      *)
(* struct shares them.  outer is nil in every environment the engine       *)
(* makes.  log (the evaluation events) and inSectionBody / inDefineBody    *)
(* (a section / define body is being evaluated) are history fields: no     *)
(* code reads them; chain names the environment a copy was made from      *)
(* (the length of the log when NewEnvironment made it).                    *)
(***************************************************************************)
EmptyMap == [n \in {} |-> Nil]

NewEnvironment(log) ==
    [store |-> EmptyMap, FileName |-> "", InExtends |-> FALSE,
     IsExtends |-> FALSE, InSection |-> FALSE, InDefine |-> FALSE,
     From |-> <<>>, Sections |-> <<>>,
     log |-> log, chain |-> Len(log), inSectionBody |-> FALSE,
     inDefineBody |-> FALSE]

EnvHas(env, name) == name \in DOMAIN env.store

EnvGet(env, name) == IF EnvHas(env, name) THEN env.store[name] ELSE Nil

MapSet(m, k, v) == [n \in DOMAIN m \cup {k} |-> IF n = k THEN v ELSE m[n]]

MapDelete(m, k) == [n \in DOMAIN m \ {k} |-> m[n]]

EnvSet(env, name, val) == [env EXCEPT !.store = MapSet(env.store, name, val)]

EnvDelete(env, name) == [env EXCEPT !.store = MapDelete(env.store, name)]

\* CopyEnvironment as it would be if it kept the store and the sections of
\* NewEnvironment
CopyEnvironmentApart(env) ==
    EnvSet([NewEnvironment(env.log) EXCEPT !.chain = env.chain],
           "sessions", EnvGet(env, "sessions"))

CopyEnvironment(env) ==
    EnvSet([NewEnvironment(env.log) EXCEPT !.store = env.store,
                                           !.From = env.From,
                                           !.Sections = env.Sections,
                                           !.chain = env.chain],
           "sessions", EnvGet(env, "sessions"))

Logged(env, e) == [env EXCEPT !.log = Append(env.log, e)]

Flags(env) == [InExtends |-> env.InExtends, IsExtends |-> env.IsExtends,
               InSection |-> env.InSection, InDefine |-> env.InDefine,
               From |-> env.From]

(***************************************************************************)
(* builtins (the back quotes of their messages are written as quotes)      *)
(***************************************************************************)
InitialBuiltins == {"len", "type", "map_key_exists", "range", "route",
                    "config", "asset"}

MapHasKey(pairs, k) == \E i \in 1..Len(pairs) : pairs[i].k = k

MapLookup(pairs, k) == (CHOOSE i \in 1..Len(pairs) : pairs[i].k = k)

Hashable(v) == v.t \notin {"slice", "map"}

lenBuiltIn(args) ==
    IF Len(args) # 1
    THEN ErrV("wrong number of arguments in len. got=" \o ToStr(Len(args))
              \o ", want=1")
    ELSE IF args[1].t = "slice" THEN Int64V(Len(args[1].v))
    ELSE IF args[1].t = "string" THEN Int64V(Len(args[1].v))
    ELSE ErrV("argument to 'len' not supported, got " \o TypeName(args[1]))

typeBuiltIn(args) ==
    IF Len(args) # 1
    THEN ErrV("wrong number of arguments in type. got=" \o ToStr(Len(args))
              \o ", want=1")
    ELSE StrV(TypeName(args[1]))

mapKeyExists(args) ==
    IF Len(args) # 2
    THEN ErrV("wrong number of arguments in map_key_exists. got="
              \o ToStr(Len(args)) \o ", want=2")
    ELSE IF args[1] = Nil THEN BoolV(FALSE)
    ELSE IF args[1].t # "map"
    THEN ErrV("argument to 'map_key_exists' not supported, got "
              \o TypeName(args[1]) \o ", want=map")
    ELSE IF args[2] = Nil \/ ~Hashable(args[2]) THEN Panic("reflect: MapIndex")
    ELSE BoolV(MapHasKey(args[1].v, args[2]))

rangeLoop(startInt, endInt) ==
    IF startInt <= endInt
    THEN <<IntV(startInt)>> \o rangeLoop(startInt + 1, endInt)
    ELSE <<>>

rangeBuiltIn(args) ==
    IF Len(args) # 2
    THEN ErrV("wrong number of arguments in range. got=" \o ToStr(Len(args))
              \o ", want=2")
    ELSE IF args[1] = Nil \/ args[2] = Nil THEN Panic("nil pointer dereference")
    ELSE IF args[1].t # "int" \/ args[2].t # "int"
    THEN ErrV("argument to 'range' not supported, got " \o TypeName(args[1])
              \o ", want=int")
    ELSE SliceV("int", rangeLoop(args[1].v, args[2].v))

\* fn.Fn(args...): route, config and asset call into the host framework and
\* are not part of the engine; a name added by LoadLambFuntions is a host
\* function too.  A host function is taken to return nil.
CallBuiltin(name, args) ==
    CASE name = "len" -> lenBuiltIn(args)
      [] name = "type" -> typeBuiltIn(args)
      [] name = "map_key_exists" -> mapKeyExists(args)
      [] name = "range" -> rangeBuiltIn(args)
      [] OTHER -> Nil

(***************************************************************************)
(* evaluator: expressions                                                  *)
(*   cx is what the evaluation reads besides the environment: the template *)
(*   tree (files), the base directory (baseDir), the builtin registry      *)
(*   (Builtins), the order in which a Go map is ranged over (pick) and the *)
(*   remaining nesting depth of LoadFile (fuel).                           *)
(***************************************************************************)
nativeBoolToBooleanObject(input) == BoolV(input)

evalBangOperatorExpression(right) ==
    IF right = BoolV(TRUE) THEN BoolV(FALSE)
    ELSE IF right = BoolV(FALSE) THEN BoolV(TRUE)
    ELSE IF right = Nil THEN BoolV(TRUE)
    ELSE BoolV(FALSE)

evalMinusPrefixOperatorExpression(right, t) ==
    IF TypeName(right) # "int"
    THEN newError(t, "unknown operator: -" \o TypeName(right))
    ELSE IntV(0 - right.v)

evalPrefixExpression(operator, right, t) ==
    CASE operator = "!" -> evalBangOperatorExpression(right)
      [] operator = "-" -> evalMinusPrefixOperatorExpression(right, t)
      [] OTHER -> newError(t, "unknown operator: " \o operator \o TypeName(right))

isNumber(num) == num.t \in {"int", "int64"}

\* Go's integer division truncates toward zero
GoDiv(a, b) ==
    LET abs(n) == IF n < 0 THEN 0 - n ELSE n IN
        Bind(abs(a) \div abs(b),
    LAMBDA q : IF (a < 0) = (b < 0) THEN q ELSE 0 - q)

evalIntegerInfixExpression(operator, left, right, t) ==
    CASE operator = "+" -> IntV(left + right)
      [] operator = "-" -> IntV(left - right)
      [] operator = "*" -> IntV(left * right)
      [] operator = "/" -> IF right = 0 THEN Panic("integer divide by zero")
                           ELSE IntV(GoDiv(left, right))
      [] operator = "<" -> nativeBoolToBooleanObject(left < right)
      [] operator = ">" -> nativeBoolToBooleanObject(left > right)
      [] operator = "==" -> nativeBoolToBooleanObject(left = right)
      [] operator = "!=" -> nativeBoolToBooleanObject(left # right)
      [] OTHER -> newError(t, "unknown operator: int " \o operator \o " int")

evalStringInfixExpression(operator, left, right, t) ==
    IF operator # "+"
    THEN newError(t, "unknown operator: string " \o operator \o " string")
    ELSE StrV(left.v \o right.v)

\* left == right on two interface values panics when both hold the same
\* uncomparable type
Uncomparable(left, right) ==
    /\ ~Hashable(left)
    /\ TypeName(left) = TypeName(right)

\* the reflect.Value of v is a nil pointer or is not valid (v is nil)
NilOrInvalid(v) == v = Nil

evalInfixExpression(operator, left, right, t) ==
    CASE isNumber(left) /\ isNumber(right) ->
            evalIntegerInfixExpression(operator, left.v, right.v, t)
      [] ~(isNumber(left) /\ isNumber(right)) /\ operator = "==" ->
            IF Uncomparable(left, right) THEN Panic("comparing uncomparable type")
            ELSE nativeBoolToBooleanObject(left = right)
      [] ~(isNumber(left) /\ isNumber(right)) /\ operator = "!=" ->
            IF Uncomparable(left, right) THEN Panic("comparing uncomparable type")
            ELSE nativeBoolToBooleanObject(left # right)
      [] ~(isNumber(left) /\ isNumber(right)) /\ operator = "and" ->
            IF NilOrInvalid(left) THEN BoolV(FALSE)
            ELSE IF right = BoolV(FALSE) THEN BoolV(FALSE)
            ELSE IF NilOrInvalid(right) THEN BoolV(FALSE)
            ELSE BoolV(TRUE)
      [] OTHER ->
            IF left.t = "string" /\ right.t = "string"
            THEN evalStringInfixExpression(operator, left, right, t)
            ELSE IF TypeName(left) # TypeName(right)
            THEN newError(t, "type mismatch: " \o TypeName(left) \o " "
                             \o operator \o " " \o TypeName(right))
            ELSE newError(t, "unknown operator: " \o TypeName(left) \o " "
                             \o operator \o " " \o TypeName(right))

isTruthy(obj) ==
    IF obj = Nil THEN FALSE
    ELSE IF obj = BoolV(TRUE) THEN TRUE
    ELSE IF obj = BoolV(FALSE) THEN FALSE
    ELSE TRUE

evalIdentifier(node, env, cx) ==
    IF EnvHas(env, node.Value) THEN EnvGet(env, node.Value)
    ELSE IF node.Value \in cx.Builtins THEN BuiltinV(node.Value)
    ELSE newError(node.Token, "identifier not found: " \o node.Value)

applyFunction(fn, args, t) ==
    IF fn.t = "builtin" THEN CallBuiltin(fn.v, args)
    ELSE newError(t, "not a function: " \o TypeName(fn))

evalArrayIndexExpression(array, index) ==
    IF index.v < 0 \/ index.v > Len(array.v) - 1 THEN Nil
    ELSE array.v[index.v + 1]

evalMapIndexExpression(m, index) ==
    IF index = Nil \/ ~Hashable(index) THEN Panic("reflect: MapIndex")
    ELSE IF ~MapHasKey(m.v, index) THEN Nil
    ELSE m.v[MapLookup(m.v, index)].v

evalIndexExpression(left, index, t) ==
    IF left.t = "slice" /\ index.t = "int"
    THEN evalArrayIndexExpression(left, index)
    ELSE IF left.t = "map" THEN evalMapIndexExpression(left, index)
    ELSE newError(t, "index operator not supported: " \o KindName(left))

\* the loop of evalExpressions: the values so far, or the one error
evalExpressionsLoop(exps, env, cx, result) ==
    IF exps = <<>> THEN [val |-> result, env |-> env, stop |-> FALSE]
    ELSE Bind(Eval(Head(exps), env, cx),
         LAMBDA r : IF IsPanic(r.val) THEN [val |-> <<r.val>>, env |-> r.env, stop |-> TRUE]
             ELSE IF isError(r.val)
             THEN [val |-> <<r.val>>, env |-> r.env, stop |-> FALSE]
             ELSE evalExpressionsLoop(Tail(exps), r.env, cx, Append(result, r.val)))

evalExpressions(exps, env, cx) == evalExpressionsLoop(exps, env, cx, <<>>)

\* pairs[key] = value
PairsSet(pairs, k, v) ==
    IF MapHasKey(pairs, k)
    THEN [pairs EXCEPT ![MapLookup(pairs, k)] = [k |-> k, v |-> v]]
    ELSE Append(pairs, [k |-> k, v |-> v])

\* the range over node.Pairs, in the order given
evalMapLiteralLoop(nodePairs, env, cx, pairs) ==
    IF nodePairs = <<>> THEN [val |-> MapV(pairs), env |-> env]
    ELSE Bind2(Eval(Head(nodePairs).key, env, cx),
             LAMBDA key : Eval(Head(nodePairs).value, key.env, cx),
         LAMBDA key, value : IF Stops(key.val) THEN key
             ELSE IF Stops(value.val) THEN value
             ELSE IF ~Hashable(key.val)
             THEN [val |-> Panic("hash of unhashable type"), env |-> value.env]
             ELSE evalMapLiteralLoop(Tail(nodePairs), value.env, cx,
                                     PairsSet(pairs, key.val, value.val)))

Reverse(s) == [i \in 1..Len(s) |-> s[Len(s) + 1 - i]]

\* the order of a range over a Go map whose entries are s
MapOrder(s, cx) == IF cx.pick THEN s ELSE Reverse(s)

evalMapLiteral(node, env, cx) ==
    evalMapLiteralLoop(MapOrder(node.Pairs, cx), env, cx, <<>>)


(***************************************************************************)
(* ast: the String form of a node, as bytes.  pick orders the range over   *)
(* the pairs of a map literal.                                             *)
(***************************************************************************)
\* the concatenation of the String forms of a list of nodes
StringAll(nodes, pick) ==
    IF nodes = <<>> THEN <<>>
    ELSE String(Head(nodes), pick) \o StringAll(Tail(nodes), pick)

\* strings.Join(parts, sep)
JoinWith(parts, sep) ==
    IF parts = <<>> THEN <<>>
    ELSE IF Len(parts) = 1 THEN Head(parts)
    ELSE Head(parts) \o sep \o JoinWith(Tail(parts), sep)

String(node, pick) ==
    IF node = Nil THEN <<>>
    ELSE CASE node.kind \in {"Program", "BlockStatement"} ->
                StringAll(node.Statements, pick)
           [] node.kind = "VarStatement" ->
                node.Token.Literal \o <<" ">> \o String(node.Name, pick)
                \o <<" ", "=", " ">> \o String(node.Value, pick)
           [] node.kind \in {"Identifier", "IntegerLiteral", "Boolean",
                             "StringLiteral"} -> node.Token.Literal
           [] node.kind = "ExpressionStatement" -> String(node.Expression, pick)
           [] node.kind = "PrefixExpression" ->
                <<"(">> \o node.Token.Literal \o String(node.Right, pick) \o <<")">>
           [] node.kind = "InfixExpression" ->
                <<"(">> \o String(node.Left, pick) \o <<" ">> \o node.Token.Literal
                \o <<" ">> \o String(node.Right, pick) \o <<")">>
           [] node.kind = "IfExpression" ->
                <<"i", "f", "(">> \o String(node.Condition, pick) \o <<")", " ">>
                \o (IF node.Alternative # Nil
                    THEN <<"e", "l", "s", "e", " ">> \o String(node.Alternative, pick)
                    ELSE <<>>)
           [] node.kind = "CallExpression" ->
                String(node.Function, pick) \o <<"(">>
                \o JoinWith([i \in 1..Len(node.Arguments) |->
                                String(node.Arguments[i], pick)], <<",", " ">>)
                \o <<")">>
           [] node.kind = "ArrayLiteral" ->
                <<"[">>
                \o JoinWith([i \in 1..Len(node.Elements) |->
                                String(node.Elements[i], pick)], <<",", " ">>)
                \o <<"]">>
           [] node.kind = "IndexExpression" ->
                <<"(">> \o String(node.Left, pick) \o <<"[">>
                \o String(node.Index, pick) \o <<"]", ")">>
           [] node.kind = "MapLiteral" ->
                Bind(IF pick THEN node.Pairs
                          ELSE [i \in 1..Len(node.Pairs) |->
                                  node.Pairs[Len(node.Pairs) + 1 - i]],
                LAMBDA ps : <<"{">>
                    \o JoinWith([i \in 1..Len(ps) |->
                                    String(ps[i].key, pick) \o <<":">>
                                    \o String(ps[i].value, pick)], <<",", " ">>)
                    \o <<"}">>)
           [] node.kind = "ForExpression" ->
                <<"f", "o", "r", " ">> \o String(node.In, pick)
           [] node.kind = "ExtendsStatement" ->
                <<"e", "x", "t", "e", "n", "d", "s", "(">> \o node.From \o <<")">>
           [] node.kind = "SectionStatement" ->
                <<"s", "e", "c", "t", "i", "o", "n", "(">> \o node.Name \o <<")">>
           [] node.kind = "DefineStatement" ->
                <<"d", "e", "f", "i", "n", "e", "(">> \o node.Name \o <<")">>
           [] node.kind = "DotExpression" ->
                String(node.Left, pick) \o <<".">> \o String(node.Right, pick)
           [] node.kind = "IncludeStatement" ->
                <<"i", "n", "c", "l", "u", "d", "e", "(">> \o node.File
                \o (IF node.Vars # Nil
                    THEN <<",", " ">> \o String(node.Vars, pick) ELSE <<>>)
                \o <<")">>

(***************************************************************************)
(* evaluator: statements and composition                                   *)
(***************************************************************************)
R(val, env) == [val |-> val, env |-> env]

\* the loop of evalStatements
evalStatementsLoop(stmts, env, cx, result) ==
    IF stmts = <<>> THEN R(StrV(result), env)
    ELSE Bind(Eval(Head(stmts), env, cx),
         LAMBDA res : IF Stops(res.val) THEN res
             ELSE evalStatementsLoop(Tail(stmts), res.env, cx,
                                     IF res.val # Nil
                                     THEN result \o Format(res.val) ELSE result))

evalStatements(stmts, env, cx) == evalStatementsLoop(stmts, env, cx, "")

evalIfExpression(ie, env, cx) ==
    Bind(Eval(ie.Condition, env, cx),
    LAMBDA condition : IF Stops(condition.val) THEN condition
        ELSE IF isTruthy(condition.val) THEN Eval(ie.Consequence, condition.env, cx)
        ELSE IF ie.Alternative # Nil THEN Eval(ie.Alternative, condition.env, cx)
        ELSE R(Nil, condition.env))

\* ForItems as it would be if a slice were ranged over as a map is (the key
\* and the value are both the element)
ForItemsOfMap(in, cx) ==
    Bind(IF in.t = "map" THEN MapOrder(in.v, cx)
              ELSE [i \in 1..Len(in.v) |-> [k |-> in.v[i]]],
    LAMBDA ks : [i \in 1..Len(ks) |-> [value |-> ks[i].k, key |-> ks[i].k]])

\* the items a for ranges over: the value bound to the value name, and the
\* one bound to the key name
ForItems(in, cx) ==
    IF in.t = "map"
    THEN Bind(MapOrder(in.v, cx),
         LAMBDA ks : [i \in 1..Len(ks) |-> [value |-> ks[i].k, key |-> ks[i].k]])
    ELSE [i \in 1..Len(in.v) |-> [value |-> in.v[i], key |-> IntV(i - 1)]]

\* the body of the for loops, from item i on (loop is the index of the
\* loop's event in the log)
evalForLoop(fe, items, i, env, cx, out) ==
    IF i > Len(items) THEN R(StrV(out), env)
    ELSE Bind4(EnvSet(env, fe.Value, items[i].value),
             LAMBDA e1 : IF fe.Key # "" THEN EnvSet(e1, fe.Key, items[i].key) ELSE e1,
             LAMBDA e1, e2 : Logged(e2, [ev |-> "iter", loop |-> out.loop, i |-> i - 1,
                               kv |-> EnvGet(e2, fe.Key),
                               vv |-> EnvGet(e2, fe.Value)]),
             LAMBDA e1, e2, e3 : Eval(fe.Block, e3, cx),
         LAMBDA e1, e2, e3, res : IF Stops(res.val) THEN res
             ELSE evalForLoop(fe, items, i + 1, res.env, cx,
                              [out EXCEPT !.s = out.s \o res.val.v]))

evalForExpression(fe, env, cx) ==
    Bind6(Eval(fe.In, env, cx),
        LAMBDA in : Len(in.env.log) + 1,
        LAMBDA in, loop : Logged(in.env, [ev |-> "for", file |-> env.FileName,
                                   Key |-> fe.Key, Value |-> fe.Value,
                                   in |-> in.val]),
        LAMBDA in, loop, started : evalForLoop(fe, ForItems(in.val, cx), 1, started, cx,
                         [s |-> "", loop |-> loop]),
        LAMBDA in, loop, started, r : EnvDelete(r.env, fe.Value),
        LAMBDA in, loop, started, r, d1 : IF fe.Key # "" THEN EnvDelete(d1, fe.Key) ELSE d1,
    LAMBDA in, loop, started, r, d1, d2 : IF Stops(in.val) THEN in
        ELSE IF in.val.t \notin {"map", "slice"}
        THEN R(newError(fe.Token, TypeName(in.val) \o " is not iterable"), in.env)
        ELSE IF Stops(r.val) THEN r
        ELSE R(StrV(r.val.v.s),
               Logged(d2, [ev |-> "endfor", loop |-> loop,
                           keyBound |-> EnvHas(d2, fe.Key),
                           valueBound |-> EnvHas(d2, fe.Value)])))

\* evalExtendsStatement as it would be if it looked at env.InExtends only
evalExtendsStatementOnce(node, env, cx) ==
    LET done(val, e) == R(val, Logged(e, [ev |-> "extends", file |-> env.FileName,
                                          chain |-> env.chain,
                                          token |-> node.Token,
                                          before |-> Flags(env),
                                          after |-> Flags(e), val |-> val]))
    IN  IF env.InExtends
        THEN done(newError(node.Token, "nested extends are not allowed"), env)
        ELSE done(Nil, [env EXCEPT !.InExtends = TRUE, !.From = node.From])

evalExtendsStatement(node, env, cx) ==
    LET done(val, e) == R(val, Logged(e, [ev |-> "extends", file |-> env.FileName,
                                          chain |-> env.chain,
                                          token |-> node.Token,
                                          before |-> Flags(env),
                                          after |-> Flags(e), val |-> val]))
    IN  IF env.InExtends \/ env.IsExtends
        THEN done(newError(node.Token, "nested extends are not allowed"), env)
        ELSE done(Nil, [env EXCEPT !.InExtends = TRUE, !.From = node.From])

\* evalSectionStatement as it would be without its tests of env.InExtends
\* and env.IsExtends
evalSectionStatementAnywhere(node, env, cx) ==
    LET event(accepted, val, e) ==
            [ev |-> "section", file |-> env.FileName, chain |-> env.chain,
             token |-> node.Token, name |-> Join(node.Name),
             flags |-> Flags(env), nested |-> env.inSectionBody,
             accepted |-> accepted, val |-> val,
             content |-> IF accepted THEN val ELSE Nil,
             before |-> env.Sections, after |-> e.Sections] IN
        LET reject(msg) ==
            R(newError(node.Token, msg),
              Logged(env, event(FALSE, newError(node.Token, msg), env))) IN
        Bind2(Eval(node.Block, [env EXCEPT !.inSectionBody = TRUE], cx),
        LAMBDA body : [body.env EXCEPT
                    !.inSectionBody = env.inSectionBody,
                    !.Sections = PairsSet(body.env.Sections, Join(node.Name),
                                          [Content |-> body.val,
                                           Name |-> Join(node.Name),
                                           Token |-> node.Token])],
    LAMBDA body, saved : IF env.InSection
        THEN reject("section statement is not allowed in a section")
        ELSE IF IsPanic(body.val) THEN body
        ELSE R(Nil, Logged(saved, event(TRUE, body.val, saved))))

evalSectionStatement(node, env, cx) ==
    LET event(accepted, val, e) ==
            [ev |-> "section", file |-> env.FileName, chain |-> env.chain,
             token |-> node.Token, name |-> Join(node.Name),
             flags |-> Flags(env), nested |-> env.inSectionBody,
             accepted |-> accepted, val |-> val,
             content |-> IF accepted THEN val ELSE Nil,
             before |-> env.Sections, after |-> e.Sections] IN
        LET reject(msg) ==
            R(newError(node.Token, msg),
              Logged(env, event(FALSE, newError(node.Token, msg), env))) IN
        Bind2(Eval(node.Block, [env EXCEPT !.inSectionBody = TRUE], cx),
        LAMBDA body : [body.env EXCEPT
                    !.inSectionBody = env.inSectionBody,
                    !.Sections = PairsSet(body.env.Sections, Join(node.Name),
                                          [Content |-> body.val,
                                           Name |-> Join(node.Name),
                                           Token |-> node.Token])],
    LAMBDA body, saved : IF ~env.InExtends
        THEN reject("section statement is only allowed in extends")
        ELSE IF env.IsExtends
        THEN reject("section statement is only allowed with extends")
        ELSE IF env.InSection
        THEN reject("section statement is not allowed in a section")
        ELSE IF IsPanic(body.val) THEN body
        ELSE R(Nil, Logged(saved, event(TRUE, body.val, saved))))

evalDefineStatement(node, env, cx) ==
    Bind2(Join(node.Name),
        LAMBDA name : MapHasKey(env.Sections, name), LAMBDA name, had :
        LET event(val, e) == [ev |-> "define", file |-> env.FileName, name |-> name,
                          chain |-> env.chain, flags |-> Flags(env),
                          nested |-> env.inDefineBody, had |-> had,
                          removed |-> had /\ ~MapHasKey(e.Sections, name),
                          val |-> val] IN
        LET done(val, e) == R(val, Logged(e, event(val, e))) IN
        Bind(Eval(node.Content, [env EXCEPT !.inDefineBody = TRUE], cx),
    LAMBDA body : IF env.InDefine
        THEN done(newError(node.Token, "nested defines are not allowed"), env)
        ELSE IF had
        THEN done(env.Sections[MapLookup(env.Sections, name)].v.Content,
                  [env EXCEPT !.Sections =
                      SelectSeq(env.Sections, LAMBDA q : q.k # name)])
        ELSE IF IsPanic(body.val) THEN body
        ELSE done(body.val, [body.env EXCEPT !.inDefineBody = env.inDefineBody])))

\* the only values with fields are the builtins (a pointer to a struct with
\* the field Fn, a func)
evalDotExpression(node, env, cx) ==
    Bind(evalIdentifier(node.Left, env, cx),
    LAMBDA left : IF isError(left) THEN R(left, env)
        ELSE IF left.t # "builtin"
        THEN R(newError(node.Token,
                        "left side of dot expression must be a struct, got="
                        \o KindName(left)), env)
        ELSE IF node.Right.Value = "Fn" THEN R([t |-> "func", v |-> left.v], env)
        ELSE R(newError(node.Token, "field " \o node.Right.Value
                        \o " does not exist in struct " \o node.Left.Value), env))

\* the range over vars.Pairs as it would be if it set nothing in newEnv
includeVarsNone(pairs, env, cx, acc) ==
    [val |-> Nil, env |-> env, store |-> acc]

\* the range over vars.Pairs of evalIncludeStatement, in the order given:
\* env is the includer's environment, acc the store of newEnv
includeVarsLoop(pairs, env, cx, acc) ==
    IF pairs = <<>> THEN [val |-> Nil, env |-> env, store |-> acc]
    ELSE IF Head(pairs).key = Nil
    THEN [val |-> Panic("nil pointer dereference"), env |-> env, store |-> acc]
    ELSE Bind2(Eval(Head(pairs).value, env, cx),
             LAMBDA v : Join(String(Head(pairs).key, cx.pick)),
         LAMBDA v, name : IF IsPanic(v.val) THEN [val |-> v.val, env |-> v.env, store |-> acc]
             ELSE includeVarsLoop(Tail(pairs),
                                  Logged(v.env, [ev |-> "var", name |-> name,
                                                 val |-> v.val]),
                                  cx, MapSet(acc, name, v.val)))

\* evalIncludeStatement as it would be if it evaluated the template in the
\* includer's environment
evalIncludeStatementInPlace(node, env, cx) ==
    Bind(LoadFile(node.File,
                       Logged(env, [ev |-> "include", file |-> env.FileName,
                                    target |-> Join(node.File), File |-> node.File,
                                    vars |-> node.Vars, from |-> Len(env.log),
                                    store |-> env.store,
                                    caller |-> DOMAIN env.store,
                                    before |-> [store |-> env.store,
                                                flags |-> Flags(env),
                                                Sections |-> env.Sections]]),
                       cx),
    LAMBDA lf : R(IF lf.panic # Nil THEN lf.panic
          ELSE IF lf.err # Nil THEN ErrV(lf.err.v) ELSE StrV(lf.out),
          Logged([lf.env EXCEPT !.FileName = env.FileName],
                 [ev |-> "included", file |-> env.FileName,
                  after |-> Flags(lf.env), call |-> Len(env.log) + 1,
                  store |-> lf.env.store, Sections |-> lf.env.Sections,
                  inner |-> [store |-> lf.env.store, flags |-> Flags(lf.env),
                             Sections |-> lf.env.Sections]])))

evalIncludeStatement(node, env, cx) ==
    Bind5(node.Vars.kind = "MapLiteral",
        LAMBDA isMap : IF node.Vars = Nil THEN [val |-> Nil, env |-> env, store |-> EmptyMap]
               ELSE includeVarsLoop(MapOrder(node.Vars.Pairs, cx), env, cx, EmptyMap),
        LAMBDA isMap, set : [NewEnvironment(Append(set.env.log,
                                         [ev |-> "include", file |-> env.FileName,
                                          target |-> Join(node.File), File |-> node.File,
                                          vars |-> node.Vars,
                                          from |-> Len(env.log),
                                          store |-> set.store,
                                          caller |-> DOMAIN env.store,
                                          before |-> [store |-> set.env.store,
                                                      flags |-> Flags(set.env),
                                                      Sections |-> set.env.Sections]]))
                     EXCEPT !.store = set.store],
        LAMBDA isMap, set, newEnv : LoadFile(node.File, newEnv, cx),
        LAMBDA isMap, set, newEnv, lf : Logged([set.env EXCEPT !.log = lf.env.log],
                       [ev |-> "included", file |-> env.FileName,
                        after |-> Flags(set.env),
                        call |-> Len(set.env.log) + 1,
                        store |-> set.env.store,
                        Sections |-> set.env.Sections,
                        inner |-> [store |-> lf.env.store,
                                   flags |-> Flags(lf.env),
                                   Sections |-> lf.env.Sections]]),
    LAMBDA isMap, set, newEnv, lf, back : IF node.Vars # Nil /\ ~isMap
        THEN R(newError(node.Token, "vars in include must be a map, got="
                        \o Join(node.Vars.Token.Literal)), env)
        ELSE IF IsPanic(set.val) THEN R(set.val, set.env)
        ELSE IF lf.panic # Nil THEN R(lf.panic, back)
        ELSE IF lf.err # Nil THEN R(ErrV(lf.err.v), back)
        ELSE R(StrV(lf.out), back))

\* the loop over program.Statements of evalProgram
evalProgramLoop(stmts, env, cx, result) ==
    IF stmts = <<>> THEN R(StrV(result), env)
    ELSE Bind(Eval(Head(stmts), env, cx),
         LAMBDA r : IF IsPanic(r.val) THEN r
             ELSE IF isError(r.val)
             THEN [val |-> StrV(env.FileName \o ": " \o Format(r.val)),
                   env |-> Logged(r.env, [ev |-> "evalerror",
                                          file |-> env.FileName, err |-> r.val]),
                   failed |-> TRUE]
             ELSE evalProgramLoop(Tail(stmts), r.env, cx,
                                  IF r.val # Nil THEN result \o Format(r.val)
                                  ELSE result))

\* the sections left after the parent was rendered: the range over them
\* returns at its first one
evalProgram(program, env, cx) ==
    Bind6(evalProgramLoop(program.Statements, env, cx, ""),
        LAMBDA body : body.env,
        LAMBDA body, e : [CopyEnvironment(e) EXCEPT !.IsExtends = TRUE],
        LAMBDA body, e, newEnv : LoadFile(e.From, newEnv, cx),
        LAMBDA body, e, newEnv, lf : Logged([e EXCEPT !.store = lf.env.store,
                                  !.Sections = lf.env.Sections,
                                  !.log = lf.env.log],
                        [ev |-> "parent", file |-> env.FileName,
                         chain |-> e.chain, IsExtends |-> e.IsExtends,
                         from |-> Join(e.From), out |-> lf.out, err |-> lf.err,
                         store |-> e.store, sections |-> e.Sections,
                         start |-> [store |-> newEnv.store,
                                    Sections |-> newEnv.Sections,
                                    InExtends |-> newEnv.InExtends,
                                    IsExtends |-> newEnv.IsExtends],
                         stored |-> lf.env.store,
                         left |-> [i \in 1..Len(lf.env.Sections) |->
                                      lf.env.Sections[i].k]]),
        LAMBDA body, e, newEnv, lf, after : MapOrder(after.Sections, cx)[1].v,
    LAMBDA body, e, newEnv, lf, after, section : IF IsPanic(body.val) \/ "failed" \in DOMAIN body THEN R(body.val, body.env)
        ELSE IF ~e.InExtends THEN R(body.val, body.env)
        ELSE IF lf.panic # Nil THEN R(lf.panic, after)
        ELSE IF lf.err # Nil THEN R(ErrV(lf.err.v), after)
        ELSE IF after.Sections # <<>>
        THEN R(newError(section.Token,
                        "section " \o section.Name \o " does not exist"), after)
        ELSE R(StrV(lf.out), after))

Eval(node, env, cx) ==
    IF node = Nil THEN R(Nil, env)
    ELSE CASE node.kind = "Program" -> evalProgram(node, env, cx)
           [] node.kind = "ExpressionStatement" -> Eval(node.Expression, env, cx)
           [] node.kind = "IntegerLiteral" -> R(IntV(node.Value), env)
           [] node.kind = "Boolean" ->
                R(nativeBoolToBooleanObject(node.Value), env)
           [] node.kind = "PrefixExpression" ->
                Bind(Eval(node.Right, env, cx),
                LAMBDA right : IF Stops(right.val) THEN right
                    ELSE R(evalPrefixExpression(node.Operator, right.val,
                                                node.Token), right.env))
           [] node.kind = "InfixExpression" ->
                Bind2(Eval(node.Left, env, cx),
                    LAMBDA left : Eval(node.Right, left.env, cx),
                LAMBDA left, right : IF Stops(left.val) THEN left
                    ELSE IF Stops(right.val) THEN right
                    ELSE Bind(evalInfixExpression(node.Operator, left.val,
                                                        right.val, node.Token),
                         LAMBDA val : R(val, Logged(right.env,
                                           [ev |-> "infix", op |-> node.Operator,
                                            left |-> left.val,
                                            right |-> right.val, val |-> val]))))
           [] node.kind = "BlockStatement" ->
                evalStatements(node.Statements, env, cx)
           [] node.kind = "IfExpression" -> evalIfExpression(node, env, cx)
           [] node.kind = "VarStatement" ->
                IF node.null THEN R(Panic("nil pointer dereference"), env)
                ELSE Bind(Eval(node.Value, env, cx),
                     LAMBDA val : IF Stops(val.val) THEN val
                         ELSE R(Nil, EnvSet(val.env, node.Name.Value, val.val)))
           [] node.kind = "Identifier" -> R(evalIdentifier(node, env, cx), env)
           [] node.kind = "CallExpression" ->
                Bind2(Eval(node.Function, env, cx),
                    LAMBDA function : evalExpressions(node.Arguments, function.env, cx),
                LAMBDA function, args : IF Stops(function.val) THEN function
                    ELSE IF args.stop THEN R(args.val[1], args.env)
                    ELSE IF Len(args.val) = 1 /\ isError(args.val[1])
                    THEN R(args.val[1], args.env)
                    ELSE R(applyFunction(function.val, args.val, node.Token),
                           args.env))
           [] node.kind = "StringLiteral" ->
                IF ~node.Closed
                THEN R(newError(node.Token, "unclosed string literal"), env)
                ELSE R(StrV(node.Value), env)
           [] node.kind = "ArrayLiteral" ->
                Bind(evalExpressions(node.Elements, env, cx),
                LAMBDA elements : IF elements.stop THEN R(elements.val[1], elements.env)
                    ELSE IF Len(elements.val) = 1 /\ isError(elements.val[1])
                    THEN R(elements.val[1], elements.env)
                    ELSE R(SliceV("interface", elements.val), elements.env))
           [] node.kind = "IndexExpression" ->
                Bind2(Eval(node.Left, env, cx),
                    LAMBDA left : Eval(node.Index, left.env, cx),
                LAMBDA left, index : IF Stops(left.val) THEN left
                    ELSE IF Stops(index.val) THEN index
                    ELSE R(evalIndexExpression(left.val, index.val, node.Token),
                           index.env))
           [] node.kind = "MapLiteral" -> evalMapLiteral(node, env, cx)
           [] node.kind = "ForExpression" -> evalForExpression(node, env, cx)
           [] node.kind = "ExtendsStatement" -> evalExtendsStatement(node, env, cx)
           [] node.kind = "SectionStatement" -> evalSectionStatement(node, env, cx)
           [] node.kind = "DefineStatement" -> evalDefineStatement(node, env, cx)
           [] node.kind = "DotExpression" -> evalDotExpression(node, env, cx)
           [] node.kind = "IncludeStatement" -> evalIncludeStatement(node, env, cx)
           [] node.kind = "HtmlLiteral" -> R(StrV(node.Value), env)

(***************************************************************************)
(* loader                                                                  *)
(***************************************************************************)
\* strings.ReplaceAll(s, old, new) for a one-byte old
ReplaceAll(s, old, new) ==
    IF s = <<>> THEN <<>>
    ELSE (IF Head(s) = old THEN new ELSE <<Head(s)>>) \o ReplaceAll(Tail(s), old, new)

\* the path of the template named fileName (lines 22-26 of LoadFile)
FilePath(fileName, baseDir) ==
    baseDir \o Join(ReplaceAll(fileName, ".", <<"/">>)) \o ".lamb.html"

\* RenderSource as it would be without the test of p.Errors()
RenderSourceUnchecked(fileName, env0, cx) ==
    Bind4(FilePath(fileName, cx.baseDir),
        LAMBDA file : [env0 EXCEPT !.FileName = file],
        LAMBDA file, env : ParseProgram(NewParser(NewLexer(cx.files[file]), cx.pick)),
        LAMBDA file, env, p : Eval(p.node, env, cx), LAMBDA file, env, p, evaluated :
        LET res(err, out, wrote, panic, e, errors) ==
            [err |-> err, out |-> out, wrote |-> wrote, panic |-> panic, env |-> e,
             errors |-> errors, file |-> file]
    IN  IF file \notin DOMAIN cx.files
        THEN res(StrV("open " \o file \o ": no such file or directory"),
                 "", FALSE, Nil, env, <<>>)
        ELSE IF p.p.panic
        THEN res(Nil, "", FALSE, Panic("nil pointer dereference"), env, <<>>)
        ELSE IF IsPanic(evaluated.val)
        THEN res(Nil, "", FALSE, evaluated.val, evaluated.env, Errors(p.p))
        ELSE IF isError(evaluated.val)
        THEN res(StrV(Format(evaluated.val)), "", FALSE, Nil, evaluated.env,
                 Errors(p.p))
        ELSE res(Nil, Format(evaluated.val), TRUE, Nil, evaluated.env, Errors(p.p)))

\* lines 70-100 of LoadFile: read, lex, parse, evaluate.  err is the error
\* returned, out what is written to the writer (wrote: whether out.Write is
\* called), panic a panic that unwinds LoadFile
RenderSource(fileName, env0, cx) ==
    Bind4(FilePath(fileName, cx.baseDir),
        LAMBDA file : [env0 EXCEPT !.FileName = file],
        LAMBDA file, env : ParseProgram(NewParser(NewLexer(cx.files[file]), cx.pick)),
        LAMBDA file, env, p : Eval(p.node, env, cx), LAMBDA file, env, p, evaluated :
        LET res(err, out, wrote, panic, e, errors) ==
            [err |-> err, out |-> out, wrote |-> wrote, panic |-> panic, env |-> e,
             errors |-> errors, file |-> file]
    IN  IF file \notin DOMAIN cx.files
        THEN res(StrV("open " \o file \o ": no such file or directory"),
                 "", FALSE, Nil, env, <<>>)
        ELSE IF p.p.panic
        THEN res(Nil, "", FALSE, Panic("nil pointer dereference"), env, <<>>)
        ELSE IF Len(Errors(p.p)) # 0
        THEN res(StrV(file \o ": " \o Errors(p.p)[1] \o "\n"), "", FALSE, Nil, env,
                 Errors(p.p))
        ELSE IF IsPanic(evaluated.val)
        THEN res(Nil, "", FALSE, evaluated.val, evaluated.env, <<>>)
        ELSE IF isError(evaluated.val)
        THEN res(StrV(Format(evaluated.val)), "", FALSE, Nil, evaluated.env, <<>>)
        ELSE res(Nil, Format(evaluated.val), TRUE, Nil, evaluated.env, <<>>))

\* LoadFile(fileName, nil, &out, Eval, env) as include and extends call it:
\* without vars the cache is neither read nor written.  fuel bounds the
\* nesting of the calls.
\* LoadFile as it would be if it refused a call at the depth where the stack
\* is exhausted
LoadFileGuarded(fileName, env, cx) ==
    IF cx.fuel = 0
    THEN [err |-> StrV("too many nested templates"), out |-> "",
          wrote |-> FALSE, panic |-> Nil, env |-> env]
    ELSE RenderSource(fileName,
                Logged(env, [ev |-> "load", name |-> Join(fileName),
                             IsExtends |-> env.IsExtends,
                             store |-> env.store]),
                [cx EXCEPT !.fuel = cx.fuel - 1])

LoadFile(fileName, env, cx) ==
    IF cx.fuel = 0
    THEN [err |-> Nil, out |-> "", wrote |-> FALSE,
          panic |-> Panic("stack overflow"), env |-> env]
    ELSE RenderSource(fileName,
                Logged(env, [ev |-> "load", name |-> Join(fileName),
                             IsExtends |-> env.IsExtends,
                             store |-> env.store]),
                [cx EXCEPT !.fuel = cx.fuel - 1])

(***************************************************************************)
(* The host.  It serves one page: every render is lamb.Render of page,     *)
(* with the variables and the order of the map ranges of that render.      *)
(* Renders follow one another; the goroutines that write the cache back    *)
(* run beside them.                                                        *)
(***************************************************************************)
\* GOVEL_LAMB_BASE_DIR
BaseDir == "v/"

\* GOVEL_LAMB_CACHE_TIME, in ticks of the clock
CacheTime == 1

MaxRenders == 2

MaxTime == 2

\* the depth of the calls of LoadFile below the one of Render
MaxDepth == 2

\* the template tree under BaseDir (a final _ in a comment stands for the
\* space that ends the template)
Templates ==
    \* HTML only:  a
       "v/h.lamb.html" :> <<"a">>
    \* in a directory of a directory:  {? 1_
    @@ "v/a/b/c.lamb.html" :> <<"{", "?", " ", "1", " ">>
    \* HTML only, three bytes:  <b>
    @@ "v/hh.lamb.html" :> <<"<", "b", ">">>
    \* code only:  {? 1 2_
    @@ "v/k.lamb.html" :> <<"{", "?", " ", "1", " ", "2", " ">>
    \* a code region that is closed:  {? 1 ?}
    @@ "v/ke.lamb.html" :> <<"{", "?", " ", "1", " ", "?", "}">>
    \* a host variable:  {? x_
    @@ "v/x8.lamb.html" :> <<"{", "?", " ", "x", " ">>
    \* an unbound identifier:  {? 1 u 2_
    @@ "v/e.lamb.html" :> <<"{", "?", " ", "1", " ", "u", " ", "2", " ">>
    \* division by zero:  {? 1 / 0_
    @@ "v/z.lamb.html" :> <<"{", "?", " ", "1", " ", "/", " ", "0", " ">>
    \* does not parse:  {? var = 3_
    @@ "v/pe.lamb.html" :> <<"{", "?", " ", "v", "a", "r", " ", "=", " ", "3",
           " ">>
    \* a string literal:  {? "abc"_
    @@ "v/s.lamb.html" :> <<"{", "?", " ", "\"", "a", "b", "c", "\"", " ">>
    \* child that binds a variable:  {? extends("pv") ?}{? var y = 2_
    @@ "v/cv.lamb.html" :> <<"{", "?", " ", "e", "x", "t", "e", "n", "d", "s",
           "(", "\"", "p", "v", "\"", ")", " ", "?", "}", "{", "?", " ", "v",
           "a", "r", " ", "y", " ", "=", " ", "2", " ">>
    \* parent that reads it and binds another:  {? var z = y + x_
    @@ "v/\"pv\".lamb.html" :> <<"{", "?", " ", "v", "a", "r", " ", "z", " ",
           "=", " ", "y", " ", "+", " ", "x", " ">>
    \* and of booleans and of integers:  {? false and true; true and false; 1 and 2_
    @@ "v/aa.lamb.html" :> <<"{", "?", " ", "f", "a", "l", "s", "e", " ", "a",
           "n", "d", " ", "t", "r", "u", "e", ";", " ", "t", "r", "u", "e",
           " ", "a", "n", "d", " ", "f", "a", "l", "s", "e", ";", " ", "1",
           " ", "a", "n", "d", " ", "2", " ">>
    \* and:  {? if false and true ?}{? 1 else ?}{? 2 endif_
    @@ "v/an.lamb.html" :> <<"{", "?", " ", "i", "f", " ", "f", "a", "l", "s",
           "e", " ", "a", "n", "d", " ", "t", "r", "u", "e", " ", "?", "}",
           "{", "?", " ", "1", " ", "e", "l", "s", "e", " ", "?", "}", "{",
           "?", " ", "2", " ", "e", "n", "d", "i", "f", " ">>
    \* for over an array literal:  {? for k, v in [10, 20] k v endfor 5_
    @@ "v/f.lamb.html" :> <<"{", "?", " ", "f", "o", "r", " ", "k", ",", " ",
           "v", " ", "i", "n", " ", "[", "1", "0", ",", " ", "2", "0", "]",
           " ", "k", " ", "v", " ", "e", "n", "d", "f", "o", "r", " ", "5",
           " ">>
    \* for over range:  {? for k, v in range(1, 3) k v endfor_
    @@ "v/fr.lamb.html" :> <<"{", "?", " ", "f", "o", "r", " ", "k", ",", " ",
           "v", " ", "i", "n", " ", "r", "a", "n", "g", "e", "(", "1", ",",
           " ", "3", ")", " ", "k", " ", "v", " ", "e", "n", "d", "f", "o",
           "r", " ">>
    \* nested for:  {? for k, v in [10, 20] for i, w in [k, v] i w endfor k endfor_
    @@ "v/fn.lamb.html" :> <<"{", "?", " ", "f", "o", "r", " ", "k", ",", " ",
           "v", " ", "i", "n", " ", "[", "1", "0", ",", " ", "2", "0", "]",
           " ", "f", "o", "r", " ", "i", ",", " ", "w", " ", "i", "n", " ",
           "[", "k", ",", " ", "v", "]", " ", "i", " ", "w", " ", "e", "n",
           "d", "f", "o", "r", " ", "k", " ", "e", "n", "d", "f", "o", "r",
           " ">>
    \* for over the empty array:  {? for k, v in [] k endfor 5_
    @@ "v/f0.lamb.html" :> <<"{", "?", " ", "f", "o", "r", " ", "k", ",", " ",
           "v", " ", "i", "n", " ", "[", "]", " ", "k", " ", "e", "n", "d",
           "f", "o", "r", " ", "5", " ">>
    \* for over a map:  {? for k, v in {1: 2, 3: 4} k v endfor_
    @@ "v/fm.lamb.html" :> <<"{", "?", " ", "f", "o", "r", " ", "k", ",", " ",
           "v", " ", "i", "n", " ", "{", "1", ":", " ", "2", ",", " ", "3",
           ":", " ", "4", "}", " ", "k", " ", "v", " ", "e", "n", "d", "f",
           "o", "r", " ">>
    \* for whose body fails:  {? for k, v in [10, 20] u endfor_
    @@ "v/fe.lamb.html" :> <<"{", "?", " ", "f", "o", "r", " ", "k", ",", " ",
           "v", " ", "i", "n", " ", "[", "1", "0", ",", " ", "2", "0", "]",
           " ", "u", " ", "e", "n", "d", "f", "o", "r", " ">>
    \* for with one name:  {? for v in [10, 20] v endfor_
    @@ "v/f1.lamb.html" :> <<"{", "?", " ", "f", "o", "r", " ", "v", " ", "i",
           "n", " ", "[", "1", "0", ",", " ", "2", "0", "]", " ", "v", " ",
           "e", "n", "d", "f", "o", "r", " ">>
    \* the key after the loop:  {? for k, v in [10, 20] k endfor k_
    @@ "v/fk.lamb.html" :> <<"{", "?", " ", "f", "o", "r", " ", "k", ",", " ",
           "v", " ", "i", "n", " ", "[", "1", "0", ",", " ", "2", "0", "]",
           " ", "k", " ", "e", "n", "d", "f", "o", "r", " ", "k", " ">>
    \* for over an integer:  {? for k, v in 5 k endfor_
    @@ "v/fx.lamb.html" :> <<"{", "?", " ", "f", "o", "r", " ", "k", ",", " ",
           "v", " ", "i", "n", " ", "5", " ", "k", " ", "e", "n", "d", "f",
           "o", "r", " ">>
    \* include with two entries:  {? include("r", {n: 5, m: 6})_
    @@ "v/i.lamb.html" :> <<"{", "?", " ", "i", "n", "c", "l", "u", "d", "e",
           "(", "\"", "r", "\"", ",", " ", "{", "n", ":", " ", "5", ",", " ",
           "m", ":", " ", "6", "}", ")", " ">>
    \* include with a repeated key:  {? var y = 1; include("r", {n: y, n: 2, m: 3})_
    @@ "v/id.lamb.html" :> <<"{", "?", " ", "v", "a", "r", " ", "y", " ", "=",
           " ", "1", ";", " ", "i", "n", "c", "l", "u", "d", "e", "(", "\"",
           "r", "\"", ",", " ", "{", "n", ":", " ", "y", ",", " ", "n", ":",
           " ", "2", ",", " ", "m", ":", " ", "3", "}", ")", " ">>
    \* include without a map:  {? var n = 1; var m = 2; include("r")_
    @@ "v/iv.lamb.html" :> <<"{", "?", " ", "v", "a", "r", " ", "n", " ", "=",
           " ", "1", ";", " ", "v", "a", "r", " ", "m", " ", "=", " ", "2",
           ";", " ", "i", "n", "c", "l", "u", "d", "e", "(", "\"", "r", "\"",
           ")", " ">>
    \* include of a template that reads x:  {? include("rx", {n: 5}) 7_
    @@ "v/ix.lamb.html" :> <<"{", "?", " ", "i", "n", "c", "l", "u", "d", "e",
           "(", "\"", "r", "x", "\"", ",", " ", "{", "n", ":", " ", "5", "}",
           ")", " ", "7", " ">>
    \* include whose second argument is no map:  {? include("r", 5)_
    @@ "v/i5.lamb.html" :> <<"{", "?", " ", "i", "n", "c", "l", "u", "d", "e",
           "(", "\"", "r", "\"", ",", " ", "5", ")", " ">>
    \* include of a missing template:  {? include("zz")_
    @@ "v/im.lamb.html" :> <<"{", "?", " ", "i", "n", "c", "l", "u", "d", "e",
           "(", "\"", "z", "z", "\"", ")", " ">>
    \* include of an including template:  {? include("ri", {n: 1})_
    @@ "v/ii.lamb.html" :> <<"{", "?", " ", "i", "n", "c", "l", "u", "d", "e",
           "(", "\"", "r", "i", "\"", ",", " ", "{", "n", ":", " ", "1", "}",
           ")", " ">>
    \* include of a template that includes itself:  {? include("w")_
    @@ "v/iw.lamb.html" :> <<"{", "?", " ", "i", "n", "c", "l", "u", "d", "e",
           "(", "\"", "w", "\"", ")", " ">>
    \* include of a child template that binds y:  {? var y = 1; include("cy") y_
    @@ "v/iy.lamb.html" :> <<"{", "?", " ", "v", "a", "r", " ", "y", " ", "=",
           " ", "1", ";", " ", "i", "n", "c", "l", "u", "d", "e", "(", "\"",
           "c", "y", "\"", ")", " ", "y", " ">>
    \* a child of p that binds y:  {? extends("p") ?}{? var y = 2; section("a") ?}{? 7 endsection_
    @@ "v/\"cy\".lamb.html" :> <<"{", "?", " ", "e", "x", "t", "e", "n", "d",
           "s", "(", "\"", "p", "\"", ")", " ", "?", "}", "{", "?", " ", "v",
           "a", "r", " ", "y", " ", "=", " ", "2", ";", " ", "s", "e", "c",
           "t", "i", "o", "n", "(", "\"", "a", "\"", ")", " ", "?", "}", "{",
           "?", " ", "7", " ", "e", "n", "d", "s", "e", "c", "t", "i", "o",
           "n", " ">>
    \* extends a template that extends itself:  {? extends("xs") ?}{? 1_
    @@ "v/xs.lamb.html" :> <<
           "{", "?", " ", "e", "x", "t", "e", "n", "d", "s", "(", "\"", "x",
           "s", "\"", ")", " ", "?", "}", "{", "?", " ", "1", " ">>
    \* extends itself:  {? extends("xs") ?}{? 1_
    @@ "v/\"xs\".lamb.html" :> <<
           "{", "?", " ", "e", "x", "t", "e", "n", "d", "s", "(", "\"", "x",
           "s", "\"", ")", " ", "?", "}", "{", "?", " ", "1", " ">>
    \* include of a template on a cycle of two:  {? include("wa")_
    @@ "v/ia.lamb.html" :> <<
           "{", "?", " ", "i", "n", "c", "l", "u", "d", "e", "(", "\"", "w",
           "a", "\"", ")", " ">>
    \* includes wb, which includes it:  {? 1 include("wb")_
    @@ "v/\"wa\".lamb.html" :> <<
           "{", "?", " ", "1", " ", "i", "n", "c", "l", "u", "d", "e", "(",
           "\"", "w", "b", "\"", ")", " ">>
    \* includes wa, which includes it:  {? 2 include("wa")_
    @@ "v/\"wb\".lamb.html" :> <<
           "{", "?", " ", "2", " ", "i", "n", "c", "l", "u", "d", "e", "(",
           "\"", "w", "a", "\"", ")", " ">>
    \* include of a child template:  {? include("c1") 9_
    @@ "v/ic.lamb.html" :> <<"{", "?", " ", "i", "n", "c", "l", "u", "d", "e",
           "(", "\"", "c", "1", "\"", ")", " ", "9", " ">>
    \* child of p:  {? extends("p") ?}{? section("a") ?}{? 7 endsection_
    @@ "v/c.lamb.html" :> <<"{", "?", " ", "e", "x", "t", "e", "n", "d", "s",
           "(", "\"", "p", "\"", ")", " ", "?", "}", "{", "?", " ", "s", "e",
           "c", "t", "i", "o", "n", "(", "\"", "a", "\"", ")", " ", "?", "}",
           "{", "?", " ", "7", " ", "e", "n", "d", "s", "e", "c", "t", "i",
           "o", "n", " ">>
    \* child without a section:  {? extends("p") ?}{? 8_
    @@ "v/c0.lamb.html" :> <<"{", "?", " ", "e", "x", "t", "e", "n", "d", "s",
           "(", "\"", "p", "\"", ")", " ", "?", "}", "{", "?", " ", "8", " ">>
    \* section the parent does not define:  {? extends("p") ?}{? section("b") ?}{? 7 endsection_
    @@ "v/cu.lamb.html" :> <<"{", "?", " ", "e", "x", "t", "e", "n", "d", "s",
           "(", "\"", "p", "\"", ")", " ", "?", "}", "{", "?", " ", "s", "e",
           "c", "t", "i", "o", "n", "(", "\"", "b", "\"", ")", " ", "?", "}",
           "{", "?", " ", "7", " ", "e", "n", "d", "s", "e", "c", "t", "i",
           "o", "n", " ">>
    \* child of a parent without define:  {? extends("q") ?}{? section("a") ?}{? 7 endsection_
    @@ "v/cq.lamb.html" :> <<"{", "?", " ", "e", "x", "t", "e", "n", "d", "s",
           "(", "\"", "q", "\"", ")", " ", "?", "}", "{", "?", " ", "s", "e",
           "c", "t", "i", "o", "n", "(", "\"", "a", "\"", ")", " ", "?", "}",
           "{", "?", " ", "7", " ", "e", "n", "d", "s", "e", "c", "t", "i",
           "o", "n", " ">>
    \* child with a define of its section:  {? extends("p") ?}{? section("a") ?}{? 7 endsection define("a") ?}{? 9 end_
    @@ "v/d.lamb.html" :> <<"{", "?", " ", "e", "x", "t", "e", "n", "d", "s",
           "(", "\"", "p", "\"", ")", " ", "?", "}", "{", "?", " ", "s", "e",
           "c", "t", "i", "o", "n", "(", "\"", "a", "\"", ")", " ", "?", "}",
           "{", "?", " ", "7", " ", "e", "n", "d", "s", "e", "c", "t", "i",
           "o", "n", " ", "d", "e", "f", "i", "n", "e", "(", "\"", "a", "\"",
           ")", " ", "?", "}", "{", "?", " ", "9", " ", "e", "n", "d", " ">>
    \* the same, under q:  {? extends("q") ?}{? section("a") ?}{? 7 endsection define("a") ?}{? 9 end_
    @@ "v/dq.lamb.html" :> <<"{", "?", " ", "e", "x", "t", "e", "n", "d", "s",
           "(", "\"", "q", "\"", ")", " ", "?", "}", "{", "?", " ", "s", "e",
           "c", "t", "i", "o", "n", "(", "\"", "a", "\"", ")", " ", "?", "}",
           "{", "?", " ", "7", " ", "e", "n", "d", "s", "e", "c", "t", "i",
           "o", "n", " ", "d", "e", "f", "i", "n", "e", "(", "\"", "a", "\"",
           ")", " ", "?", "}", "{", "?", " ", "9", " ", "e", "n", "d", " ">>
    \* section in a section:  {? extends("p") ?}{? section("a") ?}{? section("b") ?}{? 7 endsection 8 endsection_
    @@ "v/n.lamb.html" :> <<"{", "?", " ", "e", "x", "t", "e", "n", "d", "s",
           "(", "\"", "p", "\"", ")", " ", "?", "}", "{", "?", " ", "s", "e",
           "c", "t", "i", "o", "n", "(", "\"", "a", "\"", ")", " ", "?", "}",
           "{", "?", " ", "s", "e", "c", "t", "i", "o", "n", "(", "\"", "b",
           "\"", ")", " ", "?", "}", "{", "?", " ", "7", " ", "e", "n", "d",
           "s", "e", "c", "t", "i", "o", "n", " ", "8", " ", "e", "n", "d",
           "s", "e", "c", "t", "i", "o", "n", " ">>
    \* extends twice:  {? extends("p") ?}{? extends("q") ?}{? section("a") ?}{? 7 endsection_
    @@ "v/xx.lamb.html" :> <<"{", "?", " ", "e", "x", "t", "e", "n", "d", "s",
           "(", "\"", "p", "\"", ")", " ", "?", "}", "{", "?", " ", "e", "x",
           "t", "e", "n", "d", "s", "(", "\"", "q", "\"", ")", " ", "?", "}",
           "{", "?", " ", "s", "e", "c", "t", "i", "o", "n", "(", "\"", "a",
           "\"", ")", " ", "?", "}", "{", "?", " ", "7", " ", "e", "n", "d",
           "s", "e", "c", "t", "i", "o", "n", " ">>
    \* child that fails after its section:  {? extends("p") ?}{? section("a") ?}{? 7 endsection u_
    @@ "v/ce.lamb.html" :> <<"{", "?", " ", "e", "x", "t", "e", "n", "d", "s",
           "(", "\"", "p", "\"", ")", " ", "?", "}", "{", "?", " ", "s", "e",
           "c", "t", "i", "o", "n", "(", "\"", "a", "\"", ")", " ", "?", "}",
           "{", "?", " ", "7", " ", "e", "n", "d", "s", "e", "c", "t", "i",
           "o", "n", " ", "u", " ">>
    \* section without extends:  {? section("a") ?}{? 7 endsection_
    @@ "v/cs.lamb.html" :> <<"{", "?", " ", "s", "e", "c", "t", "i", "o", "n",
           "(", "\"", "a", "\"", ")", " ", "?", "}", "{", "?", " ", "7", " ",
           "e", "n", "d", "s", "e", "c", "t", "i", "o", "n", " ">>
    \* define without extends:  {? define("a") ?}{? 9 end_
    @@ "v/dd.lamb.html" :> <<"{", "?", " ", "d", "e", "f", "i", "n", "e", "(",
           "\"", "a", "\"", ")", " ", "?", "}", "{", "?", " ", "9", " ", "e",
           "n", "d", " ">>
    \* child of a parent with two defines:  {? extends("p2") ?}{? section("a") ?}{? 7 endsection_
    @@ "v/c2.lamb.html" :> <<"{", "?", " ", "e", "x", "t", "e", "n", "d", "s",
           "(", "\"", "p", "2", "\"", ")", " ", "?", "}", "{", "?", " ", "s",
           "e", "c", "t", "i", "o", "n", "(", "\"", "a", "\"", ")", " ", "?",
           "}", "{", "?", " ", "7", " ", "e", "n", "d", "s", "e", "c", "t",
           "i", "o", "n", " ">>
    \* child of a parent with nested defines:  {? extends("pn") ?}{? section("b") ?}{? 7 endsection_
    @@ "v/cn.lamb.html" :> <<"{", "?", " ", "e", "x", "t", "e", "n", "d", "s",
           "(", "\"", "p", "n", "\"", ")", " ", "?", "}", "{", "?", " ", "s",
           "e", "c", "t", "i", "o", "n", "(", "\"", "b", "\"", ")", " ", "?",
           "}", "{", "?", " ", "7", " ", "e", "n", "d", "s", "e", "c", "t",
           "i", "o", "n", " ">>
    \* child of a parent that extends:  {? extends("px") ?}{? 8_
    @@ "v/cx.lamb.html" :> <<"{", "?", " ", "e", "x", "t", "e", "n", "d", "s",
           "(", "\"", "p", "x", "\"", ")", " ", "?", "}", "{", "?", " ", "8",
           " ">>
    \* child of a missing parent:  {? extends("zz") ?}{? 8_
    @@ "v/cm.lamb.html" :> <<"{", "?", " ", "e", "x", "t", "e", "n", "d", "s",
           "(", "\"", "z", "z", "\"", ")", " ", "?", "}", "{", "?", " ", "8",
           " ">>
    \* child of a parent with a section:  {? extends("ps") ?}{? 8_
    @@ "v/cp.lamb.html" :> <<"{", "?", " ", "e", "x", "t", "e", "n", "d", "s",
           "(", "\"", "p", "s", "\"", ")", " ", "?", "}", "{", "?", " ", "8",
           " ">>
    \* child of a parent that fails:  {? extends("pf") ?}{? section("a") ?}{? 7 endsection_
    @@ "v/cf.lamb.html" :> <<"{", "?", " ", "e", "x", "t", "e", "n", "d", "s",
           "(", "\"", "p", "f", "\"", ")", " ", "?", "}", "{", "?", " ", "s",
           "e", "c", "t", "i", "o", "n", "(", "\"", "a", "\"", ")", " ", "?",
           "}", "{", "?", " ", "7", " ", "e", "n", "d", "s", "e", "c", "t",
           "i", "o", "n", " ">>
    \* a section captured twice:  {? extends("p") ?}{? section("a") ?}{? 7 endsection section("a") ?}{? 6 endsection_
    @@ "v/cc.lamb.html" :> <<"{", "?", " ", "e", "x", "t", "e", "n", "d", "s",
           "(", "\"", "p", "\"", ")", " ", "?", "}", "{", "?", " ", "s", "e",
           "c", "t", "i", "o", "n", "(", "\"", "a", "\"", ")", " ", "?", "}",
           "{", "?", " ", "7", " ", "e", "n", "d", "s", "e", "c", "t", "i",
           "o", "n", " ", "s", "e", "c", "t", "i", "o", "n", "(", "\"", "a",
           "\"", ")", " ", "?", "}", "{", "?", " ", "6", " ", "e", "n", "d",
           "s", "e", "c", "t", "i", "o", "n", " ">>
    \* section whose body fails:  {? extends("p") ?}{? section("a") ?}{? 7 u endsection_
    @@ "v/cb.lamb.html" :> <<"{", "?", " ", "e", "x", "t", "e", "n", "d", "s",
           "(", "\"", "p", "\"", ")", " ", "?", "}", "{", "?", " ", "s", "e",
           "c", "t", "i", "o", "n", "(", "\"", "a", "\"", ")", " ", "?", "}",
           "{", "?", " ", "7", " ", "u", " ", "e", "n", "d", "s", "e", "c",
           "t", "i", "o", "n", " ">>
    \* reads n and m:  {? n m_
    @@ "v/\"r\".lamb.html" :> <<"{", "?", " ", "n", " ", "m", " ">>
    \* reads n and the host variable x:  {? n x_
    @@ "v/\"rx\".lamb.html" :> <<"{", "?", " ", "n", " ", "x", " ">>
    \* includes r:  {? n include("r", {n: n, m: 4})_
    @@ "v/\"ri\".lamb.html" :> <<"{", "?", " ", "n", " ", "i", "n", "c", "l",
           "u", "d", "e", "(", "\"", "r", "\"", ",", " ", "{", "n", ":", " ",
           "n", ",", " ", "m", ":", " ", "4", "}", ")", " ">>
    \* includes itself:  {? 1 include("w")_
    @@ "v/\"w\".lamb.html" :> <<"{", "?", " ", "1", " ", "i", "n", "c", "l",
           "u", "d", "e", "(", "\"", "w", "\"", ")", " ">>
    \* a child of p:  {? extends("p") ?}{? section("a") ?}{? 7 endsection_
    @@ "v/\"c1\".lamb.html" :> <<"{", "?", " ", "e", "x", "t", "e", "n", "d",
           "s", "(", "\"", "p", "\"", ")", " ", "?", "}", "{", "?", " ", "s",
           "e", "c", "t", "i", "o", "n", "(", "\"", "a", "\"", ")", " ", "?",
           "}", "{", "?", " ", "7", " ", "e", "n", "d", "s", "e", "c", "t",
           "i", "o", "n", " ">>
    \* parent with one define:  {? 1 define("a") ?}{? 2 end 3_
    @@ "v/\"p\".lamb.html" :> <<"{", "?", " ", "1", " ", "d", "e", "f", "i",
           "n", "e", "(", "\"", "a", "\"", ")", " ", "?", "}", "{", "?", " ",
           "2", " ", "e", "n", "d", " ", "3", " ">>
    \* parent without define:  {? 1_
    @@ "v/\"q\".lamb.html" :> <<"{", "?", " ", "1", " ">>
    \* parent with two defines of a:  {? define("a") ?}{? 2 end define("a") ?}{? 4 end_
    @@ "v/\"p2\".lamb.html" :> <<"{", "?", " ", "d", "e", "f", "i", "n", "e",
           "(", "\"", "a", "\"", ")", " ", "?", "}", "{", "?", " ", "2", " ",
           "e", "n", "d", " ", "d", "e", "f", "i", "n", "e", "(", "\"", "a",
           "\"", ")", " ", "?", "}", "{", "?", " ", "4", " ", "e", "n", "d",
           " ">>
    \* parent with a define in a define:  {? define("a") ?}{? 1 define("b") ?}{? 2 end end_
    @@ "v/\"pn\".lamb.html" :> <<"{", "?", " ", "d", "e", "f", "i", "n", "e",
           "(", "\"", "a", "\"", ")", " ", "?", "}", "{", "?", " ", "1", " ",
           "d", "e", "f", "i", "n", "e", "(", "\"", "b", "\"", ")", " ", "?",
           "}", "{", "?", " ", "2", " ", "e", "n", "d", " ", "e", "n", "d",
           " ">>
    \* parent that extends:  {? extends("q") ?}{? 5_
    @@ "v/\"px\".lamb.html" :> <<"{", "?", " ", "e", "x", "t", "e", "n", "d",
           "s", "(", "\"", "q", "\"", ")", " ", "?", "}", "{", "?", " ", "5",
           " ">>
    \* parent with a section:  {? section("a") ?}{? 1 endsection 2_
    @@ "v/\"ps\".lamb.html" :> <<"{", "?", " ", "s", "e", "c", "t", "i", "o",
           "n", "(", "\"", "a", "\"", ")", " ", "?", "}", "{", "?", " ", "1",
           " ", "e", "n", "d", "s", "e", "c", "t", "i", "o", "n", " ", "2",
           " ">>
    \* parent that fails:  {? 1 u define("a") ?}{? 2 end_
    @@ "v/\"pf\".lamb.html" :> <<"{", "?", " ", "1", " ", "u", " ", "d", "e",
           "f", "i", "n", "e", "(", "\"", "a", "\"", ")", " ", "?", "}", "{",
           "?", " ", "2", " ", "e", "n", "d", " ">>

\* the names lamb.Render is called with
Pages ==
    {<<"h">>, <<"h", "h">>, <<"k">>, <<"k", "e">>, <<"x", "8">>, <<"e">>,
     <<"z">>, <<"p", "e">>, <<"s">>, <<"a", "n">>, <<"f">>, <<"f", "r">>,
     <<"f", "n">>, <<"f", "0">>, <<"f", "m">>, <<"f", "e">>, <<"f", "1">>,
     <<"f", "k">>, <<"f", "x">>, <<"i">>, <<"i", "d">>, <<"i", "v">>,
     <<"i", "x">>, <<"i", "5">>, <<"i", "m">>, <<"i", "i">>, <<"i", "w">>,
     <<"i", "c">>, <<"c">>, <<"c", "0">>, <<"c", "u">>, <<"c", "q">>, <<"d">>,
     <<"d", "q">>, <<"n">>, <<"x", "x">>, <<"c", "e">>, <<"c", "s">>,
     <<"d", "d">>, <<"c", "2">>, <<"c", "n">>, <<"c", "x">>, <<"c", "m">>,
     <<"c", "p">>, <<"c", "f">>, <<"c", "c">>, <<"c", "b">>, <<"a", "a">>,
     <<"c", "v">>, <<"i", "y">>, <<"x", "s">>,
     <<"i", "a">>}

\* the variables of the host
HostVars == "x" :> IntV(8)

\* the vars of a render: without __cache, with __cache "all", with another
\* __cache and another x
VarsChoices ==
    {HostVars, HostVars @@ ("__cache" :> StrV("all")),
     "x" :> IntV(9) @@ "__cache" :> StrV("page")}

\* lines 33-37 of LoadFile
cacheOf(vars) ==
    IF "__cache" \in DOMAIN vars /\ TypeName(vars["__cache"]) = "string"
    THEN vars["__cache"].v ELSE ""

Cx(pick) ==
    [files |-> Templates, baseDir |-> BaseDir, Builtins |-> InitialBuiltins,
     pick |-> pick, fuel |-> MaxDepth]

\* what lines 70-100 of LoadFile compute for each call of Render (they read
\* the tree and the vars only)
Evaluated ==
    {[page |-> p, vars |-> vs, pick |-> b,
      r |-> RenderSource(p, [NewEnvironment(<<>>) EXCEPT !.store = vs],
                         Cx(b))] :
        p \in Pages, vs \in VarsChoices, b \in BOOLEAN}

evaluated(p, vs, b) ==
    (CHOOSE e \in Evaluated : e.page = p /\ e.vars = vs /\ e.pick = b).r


(***************************************************************************)
(* the host's set-up: Init and LoadLambFuntions                            *)
(***************************************************************************)
\* the functions of the registry when the program starts
BuiltinFns ==
    "len" :> "lenBuiltIn" @@ "type" :> "typeBuiltIn"
    @@ "map_key_exists" :> "mapKeyExists" @@ "range" :> "rangeBuiltIn"
    @@ "route" :> "routeBuiltIn" @@ "config" :> "configBuiltIn"
    @@ "asset" :> "assetBuiltIn"

\* os.Setenv and os.Getenv
Setenv(env, k, v) == MapSet(env, k, v)

Getenv(env, k) == IF k \in DOMAIN env THEN env[k] ELSE ""

\* a map[interface{}]interface{} of the configuration
ConfigMap(m) == [t |-> "map", v |-> m]

\* m[k] of a Go map: nil when k is not a key of m
Index(m, k) == IF k \in DOMAIN m THEN m[k] ELSE Nil

\* the seconds of the strings time.ParseDuration accepts, of those the
\* configurations below hold
Durations == "1s" :> 1 @@ "60s" :> 60

\* Duration.String()
DurationString(d) ==
    IF d >= 60 THEN ToStr(d \div 60) \o "m" \o ToStr(d % 60) \o "s"
    ELSE ToStr(d) \o "s"

\* Init(config) in the environment env: the error returned and the
\* environment it leaves
InitResult(config, env) ==
    LET lamb == Index(config, "lamb")
        lambConfig == lamb.v
        dir == Index(lambConfig, "dir")
        cache == Index(lambConfig, "cache")
        cacheMap == cache.v
        dirExists == "dir" \in DOMAIN cacheMap
        cacheDir == IF ~dirExists THEN StrV(".cache") ELSE Index(cacheMap, "dir")
        cacheTime == Index(cacheMap, "time")
        fail(msg) == [err |-> StrV(msg), environ |-> env]
    IN  IF lamb = Nil THEN fail("lamb: missing config")
        ELSE IF lamb.t # "map"
        THEN fail("lamb: config must be a map[interface{}]interface{} but got "
                  \o lamb.t)
        ELSE IF "dir" \notin DOMAIN lambConfig
        THEN fail("lamb: missing config: dir")
        ELSE IF dir.t # "string" THEN fail("lamb: dir must be a string")
        ELSE IF "cache" \notin DOMAIN lambConfig
        THEN [err |-> Nil, environ |-> Setenv(env, "GOVEL_LAMB_BASE_DIR", dir.v)]
        ELSE IF cache.t # "map"
        THEN fail("lamb: cache must be a map[interface{}]interface{}")
        ELSE IF Index(cacheMap, "dir").t # "string"
        THEN fail("lamb: cache: dir must be a string")
        ELSE IF "time" \notin DOMAIN cacheMap
        THEN fail("lamb: cache: missing config: time")
        ELSE IF cacheTime.t # "string"
        THEN fail("lamb: cache: time must be a string")
        ELSE IF cacheTime.v \notin DOMAIN Durations
        THEN fail("lamb: cache: time must be a valid duration")
        ELSE [err |-> Nil,
              environ |->
                Setenv(Setenv(Setenv(env, "GOVEL_LAMB_CACHE_DIR", cacheDir.v),
                              "GOVEL_LAMB_CACHE_TIME",
                              DurationString(Durations[cacheTime.v])),
                       "GOVEL_LAMB_BASE_DIR", dir.v)]

\* the loop of LoadLambFuntions as it would be without the test of exists
RECURSIVE LoadLambFuntionsMerge(_, _, _)
LoadLambFuntionsMerge(funcs, order, registry) ==
    IF order = <<>> THEN [Builtins |-> registry, panic |-> Nil]
    ELSE LoadLambFuntionsMerge(funcs, Tail(order),
                               MapSet(registry, Head(order), funcs[Head(order)]))

\* the loop of LoadLambFuntions over the keys of funcs in the order the
\* range statement takes them
RECURSIVE LoadLambFuntionsLoop(_, _, _)
LoadLambFuntionsLoop(funcs, order, registry) ==
    IF order = <<>> THEN [Builtins |-> registry, panic |-> Nil]
    ELSE IF Head(order) \in DOMAIN registry
    THEN [Builtins |-> registry,
          panic |-> Panic("lamb: function " \o Head(order) \o " already exists")]
    ELSE LoadLambFuntionsLoop(funcs, Tail(order),
                              MapSet(registry, Head(order), funcs[Head(order)]))

\* the configuration of the program that serves the pages
ServedConfig ==
    "lamb" :> ConfigMap("dir" :> StrV(BaseDir)
                        @@ "cache" :> ConfigMap("dir" :> StrV(".cache")
                                                @@ "time" :> StrV("1s")))

\* a key that a configuration may leave out
Absent == [t |-> "absent"]

Opt(k, v) == IF v = Absent THEN EmptyMap ELSE k :> v

\* the configurations Init is called with
CacheConfigs ==
    {Absent, IntV(1)}
    \cup {ConfigMap(Opt("dir", d) @@ Opt("time", t)) :
            d \in {Absent, IntV(1), StrV(".c")},
            t \in {Absent, IntV(1), StrV("1s"), StrV("60s"), StrV("x")}}

Configs ==
    {EmptyMap, "lamb" :> IntV(1)}
    \cup {"lamb" :> ConfigMap(Opt("dir", d) @@ Opt("cache", c)) :
            d \in {Absent, IntV(1), StrV("v/"), StrV("v")}, c \in CacheConfigs}

\* the maps LoadLambFuntions is called with: some of three names, each with
\* one of two functions of the host
FuncNames == {"len", "f", "g"}

Funcs ==
    UNION {[names -> {"hostA", "hostB"}] : names \in SUBSET FuncNames}

\* the orders a range statement may take the keys of funcs in
Orders(funcs) ==
    {o \in [1..Cardinality(DOMAIN funcs) -> DOMAIN funcs] :
        \A i, j \in DOMAIN o : i # j => o[i] # o[j]}

\* the names the host renders
HostPages == {<<"a", ".", "b", ".", "c">>}

NoCall ==
    [op |-> "", config |-> EmptyMap, funcs |-> EmptyMap, order |-> <<>>,
     err |-> Nil, panic |-> Nil, before |-> EmptyMap]


(***************************************************************************)
(* a lexer and a parser of their own, over a byte string                   *)
(***************************************************************************)
\* the longest byte string
MaxInput == 4

Bytes == {"a", "{", "?", "}", " ", "#", "\"", "NUL", "0xE9"}

\* the templates whose text is parsed, printed and parsed again
ProgramFiles ==
    {"v/k.lamb.html", "v/ke.lamb.html", "v/f.lamb.html", "v/c.lamb.html",
     "v/\"p\".lamb.html", "v/a/b/c.lamb.html"}

Inputs ==
    UNION {[1..n -> Bytes] : n \in 0..MaxInput}
    \cup {Templates[f] : f \in ProgramFiles}

\* lexer.New(text), no call of NextToken yet
Lexed(text) ==
    [l |-> NewLexer(text), before |-> NewLexer(text), tok |-> ZeroToken,
     toks |-> <<>>]

NoTrip ==
    [pc |-> "source", pick |-> TRUE, first |-> Nil, printed |-> <<>>,
     second |-> Nil]

\* text parses without errors and holds no HTML
WellFormed(text, pick) ==
    LET p == ParseProgram(NewParser(NewLexer(text), pick)).p
        next == Tokens(NewLexer(text))
    IN  /\ ~p.panic
        /\ Len(Errors(p)) = 0
        /\ \A i \in 1..Len(next) : next[i].tok.Type # "HTML"

VARIABLES
    page,        \* the page served
    cacheFiles,  \* the files of GOVEL_LAMB_CACHE_DIR, by name
    now,         \* the clock
    cur,         \* the render in progress, or the last one
    prev,        \* the render before cur
    writers,     \* the goroutines of lines 102-120 that have not ended
    environ,     \* the environment variables of the process
    Builtins,    \* evaluator.Builtins, the registry of functions
    host,        \* the last call of Init or LoadLambFuntions
    input,       \* the bytes given to a lexer
    lexed,       \* a lexer over input and what NextToken returned
    trip         \* a program parsed from input, printed and parsed again

hostVars == <<environ, Builtins, host>>

unitVars == <<input, lexed, trip>>

vars ==
    <<page, cacheFiles, now, cur, prev, writers, environ, Builtins, host,
      input, lexed, trip>>

Idle ==
    [pc |-> "idle", id |-> 0, vars |-> HostVars, pick |-> TRUE, start |-> 0,
     stat |-> Nil, pending |-> FALSE, out |-> "", wrote |-> FALSE,
     err |-> Nil, panic |-> Nil, source |-> FALSE, errors |-> <<>>,
     file |-> "", log |-> <<>>]

Init ==
    /\ page \in Pages
    /\ cacheFiles = EmptyMap
    /\ now = 0
    /\ cur = Idle
    /\ prev = Idle
    /\ writers = {}
    /\ environ = InitResult(ServedConfig, EmptyMap).environ
    /\ Builtins = BuiltinFns
    /\ host = NoCall
    /\ input = <<>>
    /\ lexed = Lexed(<<>>)
    /\ trip = NoTrip

\* lamb.Render up to the os.Stat of LoadFile (lines 20-50): the vars are
\* set, the cache file is looked up and its age compared
Render(vs, pick) ==
    /\ cur.pc \in {"idle", "done"}
    /\ cur.id < MaxRenders
    /\ LET cache == cacheOf(vs)
           found == Join(page) \in DOMAIN cacheFiles /\ cache # ""
           expired == found /\ now - cacheFiles[Join(page)].modTime > CacheTime
       IN  cur' = [Idle EXCEPT
                     !.pc = IF ~found THEN "source"
                            ELSE IF expired THEN "remove" ELSE "readcache",
                     !.id = cur.id + 1, !.vars = vs, !.pick = pick,
                     !.start = now,
                     !.stat = IF Join(page) \in DOMAIN cacheFiles
                              THEN cacheFiles[Join(page)] ELSE Nil,
                     !.pending = writers # {}]
    /\ prev' = [cur EXCEPT !.log = <<>>]
    /\ UNCHANGED <<page, cacheFiles, now, writers, hostVars, unitVars>>

\* RemoveCache as it would be if os.Remove removed nothing
RemoveCacheKeep ==
    /\ cur.pc = "remove"
    /\ cur' = [cur EXCEPT !.pc = "source"]
    /\ UNCHANGED <<page, cacheFiles, now, prev, writers, hostVars, unitVars>>

\* os.Remove(cacheFile), line 53
RemoveCache ==
    /\ cur.pc = "remove"
    /\ cacheFiles' = MapDelete(cacheFiles, Join(page))
    /\ cur' = [cur EXCEPT !.pc = "source"]
    /\ UNCHANGED <<page, now, prev, writers, hostVars, unitVars>>

\* ReadCache as it would be if the cache file were left aside
ReadCacheAside ==
    /\ cur.pc = "readcache"
    /\ cur' = [cur EXCEPT !.pc = "source"]
    /\ UNCHANGED <<page, cacheFiles, now, prev, writers, hostVars, unitVars>>

\* lines 56-66: the cache file is read and written to the writer
ReadCache ==
    /\ cur.pc = "readcache"
    /\ cur' = IF Join(page) \in DOMAIN cacheFiles
              THEN [cur EXCEPT !.pc = "done", !.wrote = TRUE,
                               !.out = cacheFiles[Join(page)].content]
              ELSE [cur EXCEPT !.pc = "done",
                               !.err = StrV("open " \o Join(page)
                                            \o ": no such file or directory")]
    /\ UNCHANGED <<page, cacheFiles, now, prev, writers, hostVars, unitVars>>

\* lines 70-123: the source is read, parsed and evaluated, the result is
\* written and the goroutine started
LoadSource ==
    /\ cur.pc = "source"
    /\ LET r == IF Getenv(environ, "GOVEL_LAMB_BASE_DIR") = BaseDir
                       /\ Builtins = BuiltinFns /\ page \in Pages
                    THEN evaluated(page, cur.vars, cur.pick)
                    ELSE RenderSource(page,
                             [NewEnvironment(<<>>) EXCEPT !.store = cur.vars],
                             [Cx(cur.pick) EXCEPT
                                !.baseDir = Getenv(environ, "GOVEL_LAMB_BASE_DIR"),
                                !.Builtins = DOMAIN Builtins])
       IN  /\ cur' = [cur EXCEPT !.pc = "done", !.source = TRUE, !.out = r.out,
                                 !.wrote = r.wrote, !.err = r.err,
                                 !.panic = r.panic, !.errors = r.errors,
                                 !.file = r.file, !.log = r.env.log]
           /\ writers' = IF r.wrote
                         THEN writers \cup {[id |-> cur.id, pc |-> "start",
                                             cache |-> cacheOf(cur.vars),
                                             content |-> r.out, inode |-> 0]}
                         ELSE writers
    /\ UNCHANGED <<page, cacheFiles, now, prev, hostVars, unitVars>>

\* lines 104-105: a goroutine whose cache is not "all" ends
WriteBackSkip(g) ==
    /\ g.pc = "start"
    /\ g.cache # "all"
    /\ writers' = writers \ {g}
    /\ UNCHANGED <<page, cacheFiles, now, cur, prev, hostVars, unitVars>>

\* os.WriteFile, line 113, first half: the file is created, or truncated
WriteBackOpen(g) ==
    /\ g.pc = "start"
    /\ g.cache = "all"
    /\ LET name == Join(page)
           inode == IF name \in DOMAIN cacheFiles THEN cacheFiles[name].inode
                    ELSE g.id
       IN  /\ cacheFiles' = MapSet(cacheFiles, name,
                                   [content |-> "", modTime |-> now, by |-> g.id,
                                    complete |-> FALSE, inode |-> inode])
           /\ writers' = (writers \ {g})
                         \cup {[g EXCEPT !.pc = "write", !.inode = inode]}
    /\ UNCHANGED <<page, now, cur, prev, hostVars, unitVars>>

\* what a file holds after new is written at its start over old
Overwrite(old, new) ==
    IF Len(new) >= Len(old) THEN new
    ELSE new \o "+" \o ToStr(Len(old) - Len(new))

\* os.WriteFile, second half: the content is written and the file closed;
\* a file removed since it was opened is written to no more
WriteBackWrite(g) ==
    /\ g.pc = "write"
    /\ LET name == Join(page)
       IN  cacheFiles' =
             IF name \in DOMAIN cacheFiles /\ cacheFiles[name].inode = g.inode
             THEN MapSet(cacheFiles, name,
                         [content |-> Overwrite(cacheFiles[name].content,
                                                g.content),
                          modTime |-> now, by |-> g.id, complete |-> TRUE,
                          inode |-> g.inode])
             ELSE cacheFiles
    /\ writers' = writers \ {g}
    /\ UNCHANGED <<page, now, cur, prev, hostVars, unitVars>>

Tick ==
    /\ now < MaxTime
    /\ now' = now + 1
    /\ UNCHANGED <<page, cacheFiles, cur, prev, writers, hostVars, unitVars>>

Next ==
    \/ \E vs \in VarsChoices, pick \in BOOLEAN : Render(vs, pick)
    \/ RemoveCache
    \/ ReadCache
    \/ LoadSource
    \/ \E g \in writers : WriteBackSkip(g)
    \/ \E g \in writers : WriteBackOpen(g)
    \/ \E g \in writers : WriteBackWrite(g)
    \/ Tick

Spec == Init /\ [][Next]_vars

\* the state of the program when it starts
HostInit ==
    /\ page \in HostPages
    /\ cacheFiles = EmptyMap
    /\ now = 0
    /\ cur = Idle
    /\ prev = Idle
    /\ writers = {}
    /\ environ = EmptyMap
    /\ Builtins = BuiltinFns
    /\ host = NoCall
    /\ input = <<>>
    /\ lexed = Lexed(<<>>)
    /\ trip = NoTrip

\* Init(config), once or again, before the first render
LambInit(config) ==
    /\ cur.pc = "idle"
    /\ LET r == InitResult(config, environ)
       IN  /\ environ' = r.environ
           /\ host' = [NoCall EXCEPT !.op = "Init", !.config = config,
                                     !.err = r.err]
    /\ UNCHANGED <<page, cacheFiles, now, cur, prev, writers, Builtins, unitVars>>

\* LoadLambFuntions(funcs) before the first render; a panic of it is
\* recovered by the host, which goes on
LoadLambFuntions(funcs, order) ==
    /\ cur.pc = "idle"
    /\ LET r == LoadLambFuntionsLoop(funcs, order, Builtins)
       IN  /\ Builtins' = r.Builtins
           /\ host' = [NoCall EXCEPT !.op = "LoadLambFuntions",
                                     !.funcs = funcs, !.order = order,
                                     !.panic = r.panic, !.before = Builtins]
    /\ UNCHANGED <<page, cacheFiles, now, cur, prev, writers, environ, unitVars>>

\* the host sets the program up, then renders without __cache
HostNext ==
    \/ \E config \in Configs : LambInit(config)
    \/ \E funcs \in Funcs : \E order \in Orders(funcs) :
          LoadLambFuntions(funcs, order)
    \/ Render(HostVars, TRUE)
    \/ LoadSource
    \/ \E g \in writers : WriteBackSkip(g)

HostSpec == HostInit /\ [][HostNext]_vars

\* a lexer is made over some bytes
ParseInit ==
    /\ page \in HostPages
    /\ cacheFiles = EmptyMap
    /\ now = 0
    /\ cur = Idle
    /\ prev = Idle
    /\ writers = {}
    /\ environ = EmptyMap
    /\ Builtins = BuiltinFns
    /\ host = NoCall
    /\ input \in Inputs
    /\ lexed = Lexed(input)
    /\ trip = NoTrip

\* l.NextToken(), as many times as input has bytes and twice more
LexStep ==
    /\ Len(lexed.toks) < Len(input) + 2
    /\ LET r == NextToken(lexed.l)
       IN  lexed' = [l |-> r.l, before |-> lexed.l, tok |-> r.tok,
                     toks |-> Append(lexed.toks, r.tok)]
    /\ UNCHANGED <<page, cacheFiles, now, cur, prev, writers, hostVars, input,
                   trip>>

\* parser.New(lexer.New(input)).ParseProgram() of a well-formed input
ParseSource(pick) ==
    /\ trip.pc = "source"
    /\ WellFormed(input, pick)
    /\ trip' = [trip EXCEPT
                  !.pc = "parsed", !.pick = pick,
                  !.first = ParseProgram(NewParser(NewLexer(input), pick)).node]
    /\ UNCHANGED <<page, cacheFiles, now, cur, prev, writers, hostVars, input,
                   lexed>>

\* program.String()
PrintProgram ==
    /\ trip.pc = "parsed"
    /\ trip' = [trip EXCEPT !.pc = "printed",
                            !.printed = String(trip.first, trip.pick)]
    /\ UNCHANGED <<page, cacheFiles, now, cur, prev, writers, hostVars, input,
                   lexed>>

\* the printed text is parsed
ParsePrinted ==
    /\ trip.pc = "printed"
    /\ trip' = [trip EXCEPT
                  !.pc = "reparsed",
                  !.second = ParseProgram(NewParser(NewLexer(trip.printed),
                                                    trip.pick)).node]
    /\ UNCHANGED <<page, cacheFiles, now, cur, prev, writers, hostVars, input,
                   lexed>>

ParseNext ==
    \/ LexStep
    \/ \E pick \in BOOLEAN : ParseSource(pick)
    \/ PrintProgram
    \/ ParsePrinted

ParseSpec == ParseInit /\ [][ParseNext]_vars

(***************************************************************************)
(* The properties of a render.  cur.log holds the events of the            *)
(* evaluation of the render in progress once its source is evaluated.      *)
(***************************************************************************)
\* the source file of the page served
PageFile == FilePath(page, BaseDir)

\* the events of one kind, by their place in the log
Events(kind) == {i \in DOMAIN cur.log : cur.log[i].ev = kind}

\* the source was evaluated and LoadFile has returned
SourceEvaluated == cur.pc = "done" /\ cur.source

\* the render of the source has succeeded
Rendered == SourceEvaluated /\ cur.err = Nil /\ cur.panic = Nil

\* the text has a code region
HasCode(src) == \E i \in 1..Len(src) - 1 : src[i] = "{" /\ src[i + 1] = "?"

\* C1: a template whose render succeeds and that has no code region renders
\* to exactly its own text (every byte of it lies outside a code region, so
\* each is to appear once and in source order)
C1_HtmlPassesThrough ==
    Rendered /\ ~HasCode(Templates[PageFile])
        => cur.out = Join(Templates[PageFile])

\* the sections of name captured before event i in the environment chain
CapturedBefore(i, name, chain) ==
    {s \in Events("section") :
        /\ s < i
        /\ cur.log[s].accepted
        /\ cur.log[s].name = name
        /\ cur.log[s].chain = chain}

Last(S) == CHOOSE s \in S : \A t \in S : t <= s

\* C2: when the render of a child that extends P succeeds, its output is the
\* output of P, and what a define(N) of P yields is the content the child's
\* section N captured, not the body of the define
C2_SectionReplacesDefine ==
    Rendered =>
        /\ \A j \in Events("parent") :
              cur.log[j].file = PageFile /\ cur.log[j].chain = 0
                  => cur.out = cur.log[j].out
        /\ \A d \in Events("define") :
              LET e == cur.log[d]
                  S == CapturedBefore(d, e.name, e.chain)
              IN  e.flags.IsExtends /\ S # {}
                      => e.val = cur.log[Last(S)].content

\* C3: an evaluation error in a template of the render makes LoadFile return
\* an error and write nothing: the text of the error is not the output
C3_EvalErrorFailsRender ==
    SourceEvaluated /\ cur.panic = Nil /\ Events("evalerror") # {}
        => /\ cur.err # Nil
           /\ ~cur.wrote
           /\ cur.out = ""

\* C4: once the parent of the page is rendered, the render fails with
\* "section <name> does not exist" for a section the child captured and no
\* define of the parent consumed, and with no error if there is none
C4_UnconsumedSectionFails ==
    SourceEvaluated /\ cur.panic = Nil =>
        \A j \in Events("parent") :
            LET captured == {s \in Events("section") :
                                /\ s < j
                                /\ cur.log[s].accepted
                                /\ cur.log[s].chain = 0}
                consumed == {s \in captured :
                                \E d \in Events("define") :
                                    /\ d < j
                                    /\ cur.log[d].flags.IsExtends
                                    /\ cur.log[d].chain = 0
                                    /\ cur.log[d].had
                                    /\ cur.log[d].name = cur.log[s].name}
                missing == {newError(cur.log[s].token,
                                     "section " \o cur.log[s].name
                                     \o " does not exist").v :
                                s \in captured \ consumed}
            IN  cur.log[j].file = PageFile /\ cur.log[j].chain = 0
                /\ cur.log[j].err = Nil
                    => IF missing # {}
                       THEN cur.err # Nil /\ cur.err.v \in missing
                       ELSE cur.err = Nil

\* C5: of two renders in a row of the page, both with __cache "all", the
\* first one successful and the second started within CacheTime of the
\* first, both write the same output, the first reads the source and the
\* second does not
C5_CacheIdempotence ==
    /\ cur.pc = "done"
    /\ prev.pc = "done"
    /\ cacheOf(prev.vars) = "all"
    /\ cacheOf(cur.vars) = "all"
    /\ prev.err = Nil /\ prev.panic = Nil /\ prev.wrote
    /\ cur.start - prev.start <= CacheTime
    => /\ cur.wrote
       /\ cur.out = prev.out
       /\ prev.source
       /\ ~cur.source

\* the includes whose template is loaded: the event after is its load
IncludeLoads ==
    {j \in Events("include") :
        j < Len(cur.log) /\ cur.log[j + 1].ev = "load"}

\* the entries of the argument map of an include
ArgEntries(j) ==
    IF cur.log[j].vars = Nil THEN <<>> ELSE cur.log[j].vars.Pairs

\* the evaluations of the entries of the argument map of an include
VarEvents(j) ==
    {i \in (cur.log[j].from + 1)..(j - 1) : cur.log[i].ev = "var"}

\* C6 as stated: the store of the environment an included template is
\* evaluated in has one binding for each entry of the argument map, each
\* entry's key bound to its value, and no other binding
C6_OneBindingPerEntry ==
    \A j \in IncludeLoads :
        LET store == cur.log[j + 1].store
        IN  /\ Cardinality(DOMAIN store) = Len(ArgEntries(j))
            /\ \A i \in VarEvents(j) :
                  /\ cur.log[i].name \in DOMAIN store
                  /\ store[cur.log[i].name] = cur.log[i].val
            /\ DOMAIN store \subseteq {cur.log[i].name : i \in VarEvents(j)}

\* C6: the store of the environment an included template is evaluated in
\* has one binding for each String form of a key of the argument map, bound
\* to the value of an entry with this key, and no other binding
C6_OneBindingPerKey ==
    \A j \in IncludeLoads :
        LET store == cur.log[j + 1].store
            keys == {Join(String(ArgEntries(j)[n].key, cur.pick)) :
                        n \in 1..Len(ArgEntries(j))}
        IN  /\ DOMAIN store = keys
            /\ \A k \in keys :
                  \E i \in VarEvents(j) :
                      cur.log[i].name = k /\ cur.log[i].val = store[k]

\* an include with two entries of one key was evaluated by a template that
\* had the host variable x, and its template was loaded without x
C6_Included ==
    /\ SourceEvaluated
    /\ \E j \in IncludeLoads :
          /\ Cardinality(DOMAIN cur.log[j + 1].store) < Len(ArgEntries(j))
          /\ Cardinality(DOMAIN cur.log[j + 1].store) > 1
          /\ "x" \in cur.log[j].caller
          /\ "x" \notin DOMAIN cur.log[j + 1].store

\* the evaluations of the body of the loop of the for event f
Iterations(f) == {i \in Events("iter") : cur.log[i].loop = f}

\* the ends of the loop of the for event f (one, or none if the loop was
\* left by an error)
Ends(f) == {i \in Events("endfor") : cur.log[i].loop = f}

\* C7: for k, v in xs with xs a slice of length n: the i-th evaluation of the
\* body (from 0) starts with k bound to i and v to xs[i], there are n of
\* them when the loop completes, and then k and v are unbound
C7_ForOverSequence ==
    \A f \in Events("for") :
        LET e == cur.log[f]
        IN  e.in.t = "slice" /\ e.Key # "" /\ e.Key # e.Value =>
              /\ \A i \in Iterations(f) :
                    LET n == Cardinality({h \in Iterations(f) : h < i})
                    IN  /\ n < Len(e.in.v)
                        /\ cur.log[i].kv = IntV(n)
                        /\ cur.log[i].vv = e.in.v[n + 1]
              /\ \A z \in Ends(f) :
                    /\ Cardinality(Iterations(f)) = Len(e.in.v)
                    /\ \A i \in Iterations(f) : i < z
                    /\ ~cur.log[z].keyBound
                    /\ ~cur.log[z].valueBound

\* a for k, v over a slice of two or more elements has completed
C7_Looped ==
    /\ SourceEvaluated
    /\ \E f \in Events("for") :
          /\ cur.log[f].in.t = "slice"
          /\ cur.log[f].Key # ""
          /\ cur.log[f].Key # cur.log[f].Value
          /\ Len(cur.log[f].in.v) >= 2
          /\ Ends(f) # {}

\* C8: an extends evaluated with InExtends or IsExtends set yields the error
\* "nested extends are not allowed" and leaves From and the flags as they
\* were; no template rendered as a parent has a parent rendered
C8_NestedExtendsRejected ==
    /\ \A i \in Events("extends") :
          LET e == cur.log[i]
          IN  e.before.InExtends \/ e.before.IsExtends =>
                /\ e.val = newError(e.token, "nested extends are not allowed")
                /\ e.after = e.before
    /\ \A j \in Events("parent") : ~cur.log[j].IsExtends

\* a template rendered as a parent has evaluated an extends, and a template
\* was rendered as a parent
C8_ParentExtended ==
    /\ SourceEvaluated
    /\ \E i \in Events("extends") : cur.log[i].before.IsExtends
    /\ Events("parent") # {}

\* C9: a section evaluated in the body of a section is not captured, a
\* define evaluated in the body of a define yields an error
C9_NoNestedSectionOrDefine ==
    /\ \A s \in Events("section") :
          cur.log[s].nested => ~cur.log[s].accepted
    /\ \A d \in Events("define") :
          cur.log[d].nested => isError(cur.log[d].val)

\* C10: a define evaluated in a template that is not rendered as a parent
\* yields an error and removes no section
C10_DefineOnlyInParent ==
    \A d \in Events("define") :
        ~cur.log[d].flags.IsExtends
            => isError(cur.log[d].val) /\ ~cur.log[d].removed

C12_CapturedOnce ==
    \A s \in Events("section") :
        LET e == cur.log[s]
        IN  MapHasKey(e.before, e.name) => e.after = e.before

\* C13: a render whose vars do not hold __cache "all" reads the source,
\* and neither reads nor removes a cache file; its goroutine writes none
C13_CacheOnlyForAll ==
    /\ cacheOf(cur.vars) # "all" /\ cur.pc # "idle"
          => /\ cur.pc \in {"source", "done"}
             /\ cur.pc = "done" => cur.source
    /\ \A g \in writers : g.cache # "all" => g.pc = "start"

\* the cache file os.Stat found at the start of the render is older than
\* CacheTime
StatExpired(r) ==
    /\ r.stat # Nil
    /\ cacheOf(r.vars) # ""
    /\ r.start - r.stat.modTime > CacheTime

\* C14: a render with a cache file older than CacheTime does not read it:
\* it removes the file, then reads the source, and with __cache "all" the
\* goroutine it starts has the output it has written to write back
C14_ExpiredNeverServed ==
    [][/\ cur'.id # cur.id /\ StatExpired(cur') => cur'.pc = "remove"
       /\ cur'.pc = "readcache" => ~StatExpired(cur')
       /\ cur.pc = "remove" /\ cur'.pc # "remove"
             => /\ cur'.pc = "source"
                /\ Join(page) \notin DOMAIN cacheFiles'
       /\ cur.pc = "source" /\ cur'.pc # "source" /\ StatExpired(cur)
             => /\ cur'.pc = "done"
                /\ cur'.source
                /\ cur'.wrote /\ cacheOf(cur.vars) = "all"
                      => \E g \in writers' \ writers :
                            /\ g.id = cur.id
                            /\ g.cache = "all"
                            /\ g.content = cur'.out]_vars

\* a render that found a cache file older than CacheTime has written what
\* it rendered from the source
C14_Expired ==
    /\ cur.pc = "done"
    /\ StatExpired(cur)
    /\ cacheOf(cur.vars) = "all"
    /\ cur.source
    /\ cur.wrote

\* C15: a render whose template has parser errors ends with the error made of
\* the first message of the parser's list; the evaluator is never invoked
\* (no event is logged), nothing is written to the output, and no goroutine
\* is started to write a cache entry for it.
C15_ParseErrorsAbort ==
    SourceEvaluated /\ Len(cur.errors) # 0 =>
        /\ cur.panic = Nil
        /\ cur.err = StrV(PageFile \o ": " \o cur.errors[1] \o "\n")
        /\ cur.log = <<>>
        /\ cur.out = "" /\ ~cur.wrote
        /\ \A g \in writers : g.id # cur.id

C15_ParseErrors ==
    /\ SourceEvaluated /\ Len(cur.errors) > 1 /\ cacheOf(cur.vars) = "all"

\* C16: LoadLambFuntions never replaces an entry of the registry: every entry
\* registered before the call is unchanged after it; when a name of funcs is
\* already registered the call panics; and when none is, the call returns
\* with every name of funcs resolving to the function funcs gives it, and
\* with no other new entry.
C16_NeverReplaces ==
    host.op = "LoadLambFuntions" =>
        /\ \A k \in DOMAIN host.before :
              k \in DOMAIN Builtins /\ Builtins[k] = host.before[k]
        /\ IF DOMAIN host.funcs \cap DOMAIN host.before # {}
           THEN IsPanic(host.panic)
           ELSE /\ host.panic = Nil
                /\ DOMAIN Builtins = DOMAIN host.before \cup DOMAIN host.funcs
                /\ \A k \in DOMAIN host.funcs : Builtins[k] = host.funcs[k]

C16_Registered ==
    /\ host.op = "LoadLambFuntions" /\ host.panic = Nil
    /\ DOMAIN host.funcs = {"g"} /\ "f" \in DOMAIN host.before
    /\ Builtins["f"] # Builtins["g"]

\* C17: Init with a base dir that is a string and a cache section that has a
\* valid duration as time and no dir returns no error and sets
\* GOVEL_LAMB_CACHE_DIR to .cache.
C17_CacheDirDefaults ==
    LET lamb == host.config["lamb"].v
    IN  /\ host.op = "Init"
        /\ host.config # EmptyMap /\ host.config["lamb"].t = "map"
        /\ "dir" \in DOMAIN lamb /\ lamb["dir"].t = "string"
        /\ "cache" \in DOMAIN lamb /\ lamb["cache"].t = "map"
        /\ DOMAIN lamb["cache"].v = {"time"}
        /\ lamb["cache"].v["time"].t = "string"
        /\ lamb["cache"].v["time"].v \in DOMAIN Durations
        => /\ host.err = Nil
           /\ Getenv(environ, "GOVEL_LAMB_CACHE_DIR") = ".cache"

\* the base directories of Configs that end with a separator
Separated == {"v/"}

\* C19: the file a render of a.b.c reads is the configured base directory, a
\* separator, then a/b/c.lamb.html, whether or not the base directory ends
\* with a separator.
C19_PathUnderBaseDir ==
    /\ cur.pc = "done" /\ cur.source
    /\ page = <<"a", ".", "b", ".", "c">>
    /\ "GOVEL_LAMB_BASE_DIR" \in DOMAIN environ
    => LET B == environ["GOVEL_LAMB_BASE_DIR"]
       IN  cur.file = (IF B \in Separated THEN B ELSE B \o "/")
                      \o "a/b/c.lamb.html"

\* the nodes a node holds, in the order of its fields
Children(node) ==
    CASE node.kind \in {"Program", "BlockStatement"} -> node.Statements
      [] node.kind = "VarStatement" -> <<node.Name, node.Value>>
      [] node.kind = "ExpressionStatement" -> <<node.Expression>>
      [] node.kind = "PrefixExpression" -> <<node.Right>>
      [] node.kind \in {"InfixExpression", "DotExpression"} ->
            <<node.Left, node.Right>>
      [] node.kind = "IfExpression" ->
            <<node.Condition, node.Consequence, node.Alternative>>
      [] node.kind = "CallExpression" -> <<node.Function>> \o node.Arguments
      [] node.kind = "ArrayLiteral" -> node.Elements
      [] node.kind = "IndexExpression" -> <<node.Left, node.Index>>
      [] node.kind = "MapLiteral" ->
            [i \in 1..(2 * Len(node.Pairs)) |->
                IF i % 2 = 1 THEN node.Pairs[(i + 1) \div 2].key
                ELSE node.Pairs[i \div 2].value]
      [] node.kind = "ForExpression" -> <<node.In, node.Block>>
      [] node.kind = "SectionStatement" -> <<node.Block>>
      [] node.kind = "DefineStatement" -> <<node.Content>>
      [] node.kind = "IncludeStatement" -> <<node.Vars>>
      [] OTHER -> <<>>

\* what a node holds besides nodes and the position of its token
Fields(node) ==
    CASE node.kind = "Program" -> <<>>
      [] node.kind = "ForExpression" ->
            <<node.Token.Type, node.Token.Literal, node.Key, node.Value>>
      [] node.kind = "ExtendsStatement" ->
            <<node.Token.Type, node.Token.Literal, node.From>>
      [] node.kind \in {"SectionStatement", "DefineStatement"} ->
            <<node.Token.Type, node.Token.Literal, node.Name>>
      [] node.kind = "IncludeStatement" ->
            <<node.Token.Type, node.Token.Literal, node.File>>
      [] OTHER -> <<node.Token.Type, node.Token.Literal>>

\* two trees are the same but for the positions of their tokens
RECURSIVE Equivalent(_, _)
Equivalent(a, b) ==
    IF a = Nil \/ b = Nil THEN a = b
    ELSE /\ a.kind = b.kind
         /\ Fields(a) = Fields(b)
         /\ Len(Children(a)) = Len(Children(b))
         /\ \A i \in 1..Len(Children(a)) :
               Equivalent(Children(a)[i], Children(b)[i])

\* C18: a well-formed program without HTML, parsed, printed with String and
\* parsed again, gives a tree equivalent to the first, bodies of if, for,
\* section and define and names of the loop variables included.
C18_RoundTrip ==
    trip.pc = "reparsed" => Equivalent(trip.first, trip.second)

\* text[i] and text[i+1] are {?
Opens(text, i) == i < Len(text) /\ text[i] = "{" /\ text[i + 1] = "?"

\* C20: the lexer starts in HTML mode; in HTML mode a byte that does not
\* start {? gives one HTML token whose literal is that byte, and {? gives no
\* token of its own and switches to code mode; in code mode ?} gives one EOC
\* token and switches to HTML mode; no HTML token comes out of code mode.
C20_TwoModes ==
    LET b == lexed.before
        a == lexed.l
        t == lexed.tok
        w == skipWhitespace(b)
    IN  /\ lexed.toks = <<>> => ~a.inCode
        /\ lexed.toks # <<>> =>
              /\ ~b.inCode /\ b.ch # NUL /\ ~(b.ch = "{" /\ peekChar(b) = "?")
                    => /\ t.Type = "HTML" /\ t.Literal = <<b.ch>>
                       /\ ~a.inCode
              /\ ~b.inCode /\ b.ch = "{" /\ peekChar(b) = "?"
                    => /\ t.Type # "HTML"
                       /\ a.inCode <=> t.Type # "EOC"
              /\ b.inCode /\ w.ch = "?" /\ peekChar(w) = "}"
                    => t.Type = "EOC" /\ ~a.inCode
              /\ b.inCode /\ t.Type # "EOC" => a.inCode
              /\ t.Type = "HTML" => ~b.inCode
        /\ lexed.tok.Type = "EOF" /\ (\A i \in 1..Len(input) : ~Opens(input, i))
              => /\ Len(lexed.toks) > Len(input)
                 /\ \A i \in 1..Len(input) :
                       /\ lexed.toks[i].Type = "HTML"
                       /\ lexed.toks[i].Literal = <<input[i]>>

\* the bytes of its input a lexer has gone past
Consumed(l) ==
    IF l.readPosition >= Len(l.input) /\ l.ch = NUL THEN Len(l.input)
    ELSE l.position

\* C21: NextToken returns EOF only when every byte of the input is consumed,
\* a call that does not return EOF consumes at least one byte, and after a
\* call that returned EOF every call returns EOF.
C21_EofAtEnd ==
    /\ lexed.toks # <<>> =>
          IF lexed.tok.Type = "EOF"
          THEN Consumed(lexed.l) = Len(input)
          ELSE Consumed(lexed.l) > Consumed(lexed.before)
    /\ \A i, j \in 1..Len(lexed.toks) :
          i < j /\ lexed.toks[i].Type = "EOF" => lexed.toks[j].Type = "EOF"

\* the length of the longest template
Longest ==
    CHOOSE n \in {Len(Templates[f]) : f \in DOMAIN Templates} :
        \A f \in DOMAIN Templates : Len(Templates[f]) <= n

\* the errors `unclosed string literal` of the tokens of the templates
UnclosedErrors ==
    {newError(Token("STRING", <<>>, line, col), "unclosed string literal") :
        line \in 1..Longest, col \in 0..Longest}

\* the templates with a string literal that its quote does not end
UnterminatedFiles ==
    {f \in DOMAIN Templates :
        \E r \in {Tokens(NewLexer(Templates[f]))[i] :
                    i \in 1..(Len(Templates[f]) + 2)} :
            /\ r.tok.Type = "STRING"
            /\ \/ Len(r.tok.Literal) < 2
               \/ r.tok.Literal[Len(r.tok.Literal)] # r.tok.Literal[1]}

\* C22: the error `unclosed string literal` comes only from a template with
\* a string literal left unterminated: neither a terminated string literal,
\* nor an HTML byte, nor an end-of-code marker evaluates to it.
C22_UnclosedOnlyIfUnterminated ==
    \A i \in Events("evalerror") :
        cur.log[i].err \in UnclosedErrors
            => cur.log[i].file \in UnterminatedFiles

\* C23: a and b is true exactly when a and b are both truthy and false
\* otherwise, whatever the operands: false and true is false, and two
\* integers give no error.
C23_AndOfTruthy ==
    \A i \in Events("infix") :
        LET e == cur.log[i]
        IN  e.op = "and" => e.val = BoolV(isTruthy(e.left) /\ isTruthy(e.right))

C25_AllOrNothing ==
    cur.pc = "done" /\ cur.panic = Nil =>
        IF cur.err # Nil THEN ~cur.wrote /\ cur.out = ""
        ELSE cur.wrote /\ (cur.source => Events("evalerror") = {})

\* C26: a render served from the cache writes the whole output of a render
\* of the page that ended before, neither an empty nor a truncated nor a
\* mixed content, whatever the write-backs in progress.
C26_CacheServesComplete ==
    cur.pc = "done" /\ ~cur.source /\ cur.err = Nil =>
        /\ cur.wrote
        /\ prev.pc = "done" /\ prev.wrote
        /\ \E vs \in VarsChoices, pick \in BOOLEAN :
              /\ evaluated(page, vs, pick).wrote
              /\ cur.out = evaluated(page, vs, pick).out

\* C27: the cache file of a render is named after the template only: a
\* render that asks for a cache and finds a file not older than the cache
\* time writes what the file holds and evaluates nothing, whatever its vars.
C27_KeyedByName ==
    [][/\ cur'.id # cur.id /\ cacheOf(cur'.vars) # "" /\ cur'.stat # Nil
             /\ ~StatExpired(cur')
             => cur'.pc = "readcache"
       /\ cur.pc = "readcache" /\ cur'.pc # "readcache"
             => /\ cur'.pc = "done" /\ ~cur'.source /\ cur'.log = <<>>
                /\ IF Join(page) \in DOMAIN cacheFiles
                   THEN /\ cur'.wrote /\ cur'.err = Nil
                        /\ cur'.out = cacheFiles[Join(page)].content
                   ELSE ~cur'.wrote /\ cur'.err # Nil]_vars

C27_ServedOtherVars ==
    /\ cur.pc = "done" /\ ~cur.source /\ cur.wrote
    /\ prev.pc = "done" /\ prev.source /\ cur.out = prev.out
    /\ cur.vars["x"] # prev.vars["x"]
    /\ evaluated(page, cur.vars, cur.pick).wrote
    /\ evaluated(page, cur.vars, cur.pick).out # cur.out

\* C28: when LoadLambFuntions panics on a name already registered, the
\* registry is as it was before the call: no other name of funcs was added.
C28_PanicLeavesRegistry ==
    host.op = "LoadLambFuntions" /\ IsPanic(host.panic)
        => Builtins = host.before

\* the include event that the included event i answers
CallOf(i) == cur.log[cur.log[i].call]

\* C29: when an include returns, the store, the phase flags and the sections
\* of the includer's environment are those it had when the template was
\* loaded, whatever the template bound, set or captured
C29_IncludeLeavesIncluder ==
    \A i \in Events("included") :
        LET e == cur.log[i]
        IN  /\ CallOf(i).ev = "include"
            /\ CallOf(i).file = e.file
            /\ e.store = CallOf(i).before.store
            /\ e.after = CallOf(i).before.flags
            /\ e.Sections = CallOf(i).before.Sections

\* a template that binds y was included by a template that had bound y, it
\* extended a parent and captured a section, and the includer still has its
\* own y, flags and sections
C29_IncludedBound ==
    /\ SourceEvaluated
    /\ \E i \in Events("included") :
          LET e == cur.log[i]
          IN  /\ "y" \in DOMAIN e.store /\ e.store["y"] = IntV(1)
              /\ "y" \in DOMAIN e.inner.store /\ e.inner.store["y"] = IntV(2)
              /\ e.inner.flags # e.after
              /\ \E k \in Events("section") :
                    e.call < k /\ k < i /\ cur.log[k].after # e.Sections

\* the templates that the text of the template f refers to by an include or
\* an extends
References(f) ==
    LET toks == Tokens(NewLexer(Templates[f]))
    IN  {FilePath(toks[n + 2].tok.Literal, BaseDir) :
            n \in {i \in 1..(Len(toks) - 2) :
                      /\ toks[i].tok.Type \in {"include", "extends"}
                      /\ toks[i + 2].tok.Type = "STRING"}}

\* the templates reached from those of S by references
RECURSIVE Reached(_)
Reached(S) ==
    LET T == S \cup UNION {References(f) : f \in S \cap DOMAIN Templates}
    IN  IF T = S THEN S ELSE Reached(T)

\* the reference graph below the template f has a cycle
Cyclic(f) ==
    LET below == Reached(References(f))
    IN  \/ f \in below
        \/ \E g \in below \cap DOMAIN Templates : g \in Reached(References(g))

\* the goroutine's stack was exhausted by the calls of LoadFile
StackOverflow == Panic("stack overflow")

\* for loops run once for each element at most, and a template of a chain
\* of renders has one parent rendered at most
BoundedRender ==
    /\ \A f \in Events("for") :
          Cardinality(Iterations(f)) <=
              (IF cur.log[f].in.t \in {"map", "slice"}
               THEN Len(cur.log[f].in.v) ELSE 0)
    /\ \A i, j \in Events("parent") :
          cur.log[i].file = cur.log[j].file
              /\ cur.log[i].chain = cur.log[j].chain => i = j

Included(i) == FilePath(cur.log[i].File, BaseDir)

\* the include event j was evaluated by the template of the include event i
\* while this template was rendered
Nested(i, j) ==
    /\ i < j
    /\ cur.log[j].file = Included(i)
    /\ \A k \in Events("included") : cur.log[k].call = i => j < k

====
